---- MODULE Spec2Model ----
(***************************************************************************)
(* Model of the LinkedIn automation platform's sync engine                 *)
(* (src/sync-engine.js) over its SQLite store (src/migrations/*.sql and    *)
(* the Database class in src/unnamed/part_001).                            *)
(*                                                                         *)
(* One action per synchronous segment of SyncEngine.run(): a segment runs  *)
(* from one await to the next, so the canAfford check and the request it   *)
(* guards are one step, and the arrival of a response together with the    *)
(* in-memory increment of consumeAPI is the next one.                      *)
(*                                                                         *)
(* The post scheduler (PostScheduler in src/unnamed/part_001, the schedule *)
(* route in src/README.md) is modelled the same way over scheduled_posts.  *)
(* The rate limiter of the server (rateLimit in src/README.md) is one       *)
(* action per request: the middleware has no await.  The migration runner  *)
(* (src/migrate.js) is one action per callback of the database.  The       *)
(* LinkedIn worker (LinkedInWorker in src/unnamed/part_002) is modelled    *)
(* with its start() calls and its processFeed invocations as processes.    *)
(***************************************************************************)
EXTENDS Integers, Sequences, FiniteSets, TLC

\* ------------------------------------------------------------------ bounds
MaxDay == 1            \* calendar days 0..MaxDay
MaxTicksPerDay == 1    \* clock ticks modelled inside one day
MaxRuns == 2           \* run() invocations per behaviour
MaxFaults == 1         \* failed requests and rejected database calls
MaxOtherCalls == 1     \* api_calls rows written by the other components
MaxPosts == 3          \* posts LinkedIn knows of
MaxScheduled == 11     \* rows of scheduled_posts: one more than the daily limit
MaxRequests == 5       \* requests that reach the rate limiter
MaxHalfWindows == 2    \* half windows of the rate limiter the clock passes through
MaxMigrateRuns == 3    \* invocations of the migration runner
MaxInvocations == 3    \* start() calls and firings of the worker's poll timer
MaxFeedPosts == 2      \* posts the feed of LinkedIn returns

\* ------------------------------------------------------- program constants
DefaultDailyApiLimit == 500
DefaultReservePool == 50
DefaultBatchSize == 10
SecondsPerDay == 86400
RetryDelay == 3600
PostWindow == 5
RelevantBonus == 50
HistoryBonus == 20
ActiveBonus == 15
MaxPriority == 100
DailyPostLimit == 10
WindowMs == 60000
CleanupInterval == 300000
DefaultReactionLimit == 500

\* SQL NULL / JavaScript null, one per type of value
NULL == "null"
NoRow == [none |-> TRUE]
NoTime == 0 - 1
NoUrn == 0 - 1
\* new Date(connected_on).getTime() of a date that does not parse (NaN)
InvalidDate == 0 - 2000000000
User == "u1"
Engines == {1, 2}
\* invocations of the cron callback that can be in progress at once
Jobs == {1, 2}
\* the routes behind rateLimit, one for each limit the server installs, and
\* the keys of their callers: the sub of the session's user, or the address
Routes == {"published", "like", "fetch-profile"}
Keys == {"sub", "ip"}
\* processFeed invocations that can be in progress at once, and start() calls
Feeds == {1, 2}
Starts == {1, 2}
\* the daily_limit settings the worker is run with
DailyLimits == {1, 2}
\* the files of src/migrations, in the order of Array.prototype.sort
MigrationFiles == << "001_engagement_system.sql", "002_fix_duplicates.sql" >>
InsightTypes == <<"top_engagers", "rising_stars", "at_risk">>

\* The clock's resolution in the model: one back-off period.
ClockStep == RetryDelay

\* the time zones of the process: UTC, and one clock step west of it
UtcOffsets == {0, 0 - ClockStep}

\* new SyncEngine(options) as called by the trigger surface
Configs ==
  { [dailyApiLimit |-> 7, reservePool |-> 1, batchSize |-> 2] }

VARIABLES
  now,           \* Date.now() / 1000
  options,       \* the options the trigger surface constructs engines with
  utcOffset,     \* local time minus UTC, in seconds, of the process
  user,          \* users row of User, or NoRow
  connections,   \* connections table: id -> row
  summary,       \* engagement_summary table: connection id -> row or NoRow
  sessions,      \* sync_sessions table: sequence of rows, id = position
  apiCalls,      \* api_calls table: the timestamp column, one entry per row
  queue,         \* sync_queue table: sequence of rows, id = position
  trackedPosts,  \* tracked_posts table: set of post ids
  events,        \* engagement_events table: sequence of rows
  insights,      \* network_insights table: sequence of rows
  eng,           \* the SyncEngine instances: engine -> fields and position
  runs,          \* run() invocations so far
  faults,        \* failed requests and rejected database calls so far
  otherCalls,    \* api_calls rows of other components so far
  scheduledPosts,\* scheduled_posts table: sequence of rows, id = position
  sent,          \* per scheduled post, the POST /rest/posts requests issued
  jobs,          \* the cron callbacks in progress: job -> locals and position
  request,       \* the POST /api/posts/schedule handler: locals and position
  rateLimiters,  \* the Map of the rate limiter: key -> times of its requests
  answered,      \* the requests the rate limiter has answered, in order
  schemaMigrations, \* schema_migrations table: the set of versions
  executed,      \* the db.exec calls of the migration runner, in order
  migrationsDir, \* the .sql files in the migrations directory
  runner,        \* the migration runner process: locals and position
  migrateRuns,   \* invocations of the migration runner so far
  settings,      \* settings table: key -> value
  reactions,     \* reactions table: sequence of rows
  processedPosts,\* posts table: the post ids with processed = 1
  worker,        \* the LinkedInWorker instance: isRunning, pollInterval
  intervals,     \* the timers of setInterval: id -> installed or cleared
  feeds,         \* processFeed invocations: slot -> locals and position
  starts,        \* start() calls: slot -> position and awaited processFeed
  invocations    \* start() calls and timer firings so far

vars == << now, options, utcOffset, user, connections, summary, sessions, apiCalls, queue,
           trackedPosts, events, insights, eng, runs, faults, otherCalls,
           scheduledPosts, sent, jobs, request, rateLimiters, answered,
           schemaMigrations, executed, migrationsDir, runner, migrateRuns,
           settings, reactions, processedPosts, worker, intervals, feeds,
           starts, invocations >>

\* the state of the post scheduler and of the schedule route
schedVars == << scheduledPosts, sent, jobs, request >>

\* the state of the rate limiter
rateVars == << rateLimiters, answered >>

\* the state of the migration runner
migrationVars ==
  << schemaMigrations, executed, migrationsDir, runner, migrateRuns >>

\* the state of the LinkedIn worker
workerVars ==
  << settings, reactions, processedPosts, worker, intervals, feeds, starts,
     invocations >>

\* the state of the components beside the sync engine and the post scheduler
appVars == << rateVars, migrationVars, workerVars >>

dbVars == << user, connections, summary, sessions, apiCalls, queue,
             trackedPosts, events, insights >>

\* ----------------------------------------------------------------- helpers
Min(a, b) == IF a < b THEN a ELSE b

RECURSIVE SeqToSet(_)
SeqToSet(s) == IF s = << >> THEN {} ELSE {Head(s)} \cup SeqToSet(Tail(s))

Indices(s) == 1..Len(s)

\* new Date().toISOString().split('T')[0]: the calendar date of a timestamp
DateOf(t) == t \div SecondsPerDay

\* new Date().setHours(0, 0, 0, 0) / 1000 at time t: the last local midnight
todayStart(t) ==
  ((t + utcOffset) \div SecondsPerDay) * SecondsPerDay - utcOffset

\* row with the fields of `fields` overwritten (UPDATE ... SET of the given
\* columns only)
Merge(row, fields) ==
  [k \in DOMAIN row |-> IF k \in DOMAIN fields THEN fields[k] ELSE row[k]]

\* ------------------------------------------------------------ LinkedIn side
\* Actor URNs LinkedIn reports: 0 is somebody who is no connection.
Actors == 0..2
PostIds == 1..MaxPosts

\* GET /rest/socialActions?entity=post: the actors that engaged with a post
LinkedInEngagement(p) == IF p = 1 THEN {0, 1} ELSE {0, 2}

\* --------------------------------------------------------- sync_sessions
\* INSERT INTO sync_sessions with the column defaults of the schema
NewSessionRow(id, fields) ==
  Merge([id |-> id, session_date |-> NoTime, status |-> "running",
         total_connections |-> 0, connections_synced |-> 0,
         api_calls_used |-> 0, api_calls_limit |-> DefaultDailyApiLimit,
         started_at |-> NoTime, paused_at |-> NoTime, completed_at |-> NoTime,
         error_message |-> NULL], fields)

\* a sync_sessions without the UNIQUE constraint
SessionNeverConflicts(row, date) == FALSE

\* UNIQUE(session_date)
SessionConflict(row, date) == row.session_date = date

\* db.getSyncSession(date): the session of that date, or no row
getSyncSession(date) ==
  IF \E i \in Indices(sessions) : SessionConflict(sessions[i], date)
  THEN sessions[CHOOSE i \in Indices(sessions) :
                  SessionConflict(sessions[i], date)]
  ELSE NoRow

\* db.updateSyncSession(id, fields): the table after the update
updateSyncSession(id, fields) ==
  [i \in Indices(sessions) |->
     IF sessions[i].id = id THEN Merge(sessions[i], fields) ELSE sessions[i]]

\* -------------------------------------------------------------- api_calls
\* SELECT COUNT(*) FROM api_calls WHERE timestamp >= todayStart
getTodayApiCallCount ==
  Cardinality({i \in Indices(apiCalls) : apiCalls[i] >= todayStart(now)})

\* INSERT INTO api_calls: the table after the insert. The timestamp is kept
\* at the resolution its only reader, getTodayApiCallCount, uses.
trackApiCall == Append(apiCalls, todayStart(now))

\* ------------------------------------------------------------- sync_queue
\* a sync_queue without the UNIQUE constraint
QueueNeverConflicts(row, connection_id) == FALSE

\* connection_id INTEGER UNIQUE
QueueConflict(row, connection_id) == row.connection_id = connection_id

\* db.addToSyncQueue(item) on table q: insert if the connection has no item,
\* else update priority and status unless the item is being processed
addToSyncQueue(q, item) ==
  IF \E i \in Indices(q) : QueueConflict(q[i], item.connection_id)
  THEN [i \in Indices(q) |->
          IF QueueConflict(q[i], item.connection_id) /\ q[i].status # "processing"
          THEN Merge(q[i], item) ELSE q[i]]
  ELSE Append(q, [id |-> Len(q) + 1, connection_id |-> item.connection_id,
                  priority |-> item.priority, status |-> item.status,
                  attempts |-> 0, next_retry |-> NoTime,
                  error_message |-> NULL, created_at |-> now])

\* db.updateQueueItem(id, fields): the table after the update
updateQueueItem(id, fields) ==
  [i \in Indices(queue) |->
     IF queue[i].id = id THEN Merge(queue[i], fields) ELSE queue[i]]

\* an item nextBatch may hand out at time t
Eligible(row, t) ==
  \/ row.status = "pending"
  \/ row.status = "failed" /\ row.next_retry # NoTime /\ row.next_retry <= t

\* the index read in ascending priority
QueueBeforeAscending(a, b) ==
  \/ a.priority < b.priority
  \/ a.priority = b.priority /\ a.created_at < b.created_at
  \/ a.priority = b.priority /\ a.created_at = b.created_at /\ a.id < b.id

\* idx_sync_queue_priority(priority DESC, created_at), then insertion order
QueueBefore(a, b) ==
  \/ a.priority > b.priority
  \/ a.priority = b.priority /\ a.created_at < b.created_at
  \/ a.priority = b.priority /\ a.created_at = b.created_at /\ a.id < b.id

RECURSIVE SortQueue(_)
SortQueue(rows) ==
  IF rows = {} THEN << >>
  ELSE LET first == CHOOSE r \in rows :
                      \A o \in rows \ {r} : QueueBefore(r, o)
       IN  << first >> \o SortQueue(rows \ {first})

\* db.getNextSyncBatch(n)
getNextSyncBatch(n) ==
  LET sorted == SortQueue({queue[i] : i \in
                             {j \in Indices(queue) : Eligible(queue[j], now)}})
  IN  SubSeq(sorted, 1, Min(n, Len(sorted)))

\* ------------------------------------------------- connections, summaries
\* db.getAllConnections(userSub, limit): the connection rows in id order
RECURSIVE IdsInOrder(_)
IdsInOrder(ids) ==
  IF ids = {} THEN << >>
  ELSE LET m == CHOOSE i \in ids : \A j \in ids : i <= j
       IN  << m >> \o IdsInOrder(ids \ {m})

getAllConnections == IdsInOrder(DOMAIN connections)

\* db.getConnectionById(id)
getConnectionById(id) ==
  IF id \in DOMAIN connections THEN connections[id] ELSE NoRow

\* db.isEngagementFromConnection(actorUrn, connectionId)
isEngagementFromConnection(actor, id) ==
  id \in DOMAIN connections /\ connections[id].urn # NoUrn
  /\ connections[id].urn = actor

NewSummaryRow ==
  [ai_relevant |-> FALSE, total_engagements |-> 0, status |-> "unknown"]

\* db.markAIRelevantByKeywords(userSub, keywords): the table after the pass
markAIRelevantByKeywords ==
  [c \in DOMAIN summary |->
     IF c \in DOMAIN connections /\ connections[c].matchesKeyword
     THEN Merge(IF summary[c] = NoRow THEN NewSummaryRow ELSE summary[c],
                [ai_relevant |-> TRUE])
     ELSE summary[c]]

\* db.updateEngagementSummary(id) given the events table ev: the counts and
\* the status of the row are recomputed from the connection's events
updateEngagementSummary(id, ev) ==
  LET mine == {i \in Indices(ev) : ev[i].connection_id = id}
      base == IF summary[id] = NoRow THEN NewSummaryRow ELSE summary[id]
  IN  [summary EXCEPT ![id] =
         Merge(base, [total_engagements |-> Cardinality(mine),
                      status |-> IF mine = {} THEN "unknown"
                                 ELSE IF \E x \in mine :
                                        now - ev[x].happened_at < 7 * SecondsPerDay
                                      THEN "active"
                                 ELSE IF \E x \in mine :
                                        now - ev[x].happened_at < 30 * SecondsPerDay
                                      THEN "quiet"
                                 ELSE "cold"])]

\* -------------------------------------------------------- network_insights
\* a network_insights without the UNIQUE constraint
InsightNeverConflicts(row, user_sub, date, type) == FALSE

\* UNIQUE(user_sub, insight_date, insight_type)
InsightConflict(row, user_sub, date, type) ==
  row.user_sub = user_sub /\ row.insight_date = date /\ row.insight_type = type

\* db.saveInsight(userSub, date, type, data) on table t
saveInsight(t, user_sub, date, type, data) ==
  IF \E i \in Indices(t) : InsightConflict(t[i], user_sub, date, type)
  THEN [i \in Indices(t) |->
          IF InsightConflict(t[i], user_sub, date, type)
          THEN Merge(t[i], [insight_data |-> data]) ELSE t[i]]
  ELSE Append(t, [user_sub |-> user_sub, insight_date |-> date,
                  insight_type |-> type, insight_data |-> data])

Relevant(c) == summary[c] # NoRow /\ summary[c].ai_relevant

\* db.getTopEngagers(userSub, 10, true)
getTopEngagers ==
  {c \in DOMAIN connections : Relevant(c) /\ summary[c].total_engagements > 0}

\* db.getRisingStars(userSub, 5, true)
getRisingStars ==
  {c \in DOMAIN connections : Relevant(c) /\ summary[c].status = "active"}

\* db.getAtRiskConnections(userSub, 5, true)
getAtRiskConnections ==
  {c \in DOMAIN connections :
     Relevant(c) /\ summary[c].status \in {"quiet", "cold"}}

\* ------------------------------------------------------------- SyncEngine
\* `options.f || d` takes d when options.f is falsy: the option is not given
\* (undefined) or is 0
Falsy(o, f) == f \notin DOMAIN o \/ o[f] = 0

\* constructor(options), lines 15-22
SyncEngine(o) ==
  LET dailyApiLimit == IF Falsy(o, "dailyApiLimit") THEN DefaultDailyApiLimit
                       ELSE o.dailyApiLimit
      reservePool   == IF Falsy(o, "reservePool") THEN DefaultReservePool
                       ELSE o.reservePool
      batchSize     == IF Falsy(o, "batchSize") THEN DefaultBatchSize
                       ELSE o.batchSize
  IN  [ pc |-> "idle",
        dailyApiLimit |-> dailyApiLimit,
        reservePool |-> reservePool,
        usableLimit |-> dailyApiLimit - reservePool,
        batchSize |-> batchSize,
        apiCallsUsed |-> 0,
        sessionId |-> NoTime,
        \* locals of the methods in progress
        session |-> NoRow,      \* initialize: the session row read
        today |-> NoTime,       \* initialize: today's date
        hasMore |-> TRUE,       \* processQueue
        processed |-> 0,        \* processQueue
        batch |-> << >>,        \* processQueue: items of the batch still to do
        batchAt |-> NoTime,     \* when the batch was read
        fetched |-> << >>,      \* the batch as getNextSyncBatch returned it
        item |-> NoRow,         \* processQueue: the item being synced
        posts |-> << >>,        \* syncConnectionEngagement: posts still to do
        post |-> 0,             \* post whose engagement call is in flight
        engagement |-> {},      \* actors of the engagement response
        error |-> NULL,         \* the exception caught or thrown
        raised |-> NULL,        \* the exception that reached run()'s catch
        result |-> "none",      \* what run() gave its caller
        \* bookkeeping of the run, read by the properties only
        issued |-> 0,           \* external calls issued
        usedAtInit |-> 0,       \* apiCallsUsed when initialize returned
        refusedAt |-> NoTime,   \* `issued` when an engagement request failed
        synced |-> << >> ]      \* connections synced, in order

\* canAfford as it would be with the reserve pool forgotten
canAffordWithoutReserve(e, calls) ==
  (eng[e].apiCallsUsed + calls) <= eng[e].dailyApiLimit

\* canAfford(calls)
canAfford(e, calls) == (eng[e].apiCallsUsed + calls) <= eng[e].usableLimit

At(e, label) == eng[e].pc = label

\* a request to LinkedIn may fail, a database call may reject
CanFault == faults < MaxFaults

\* run() throws `message` to its caller without passing through its catch
Throw(e, message) ==
  eng' = [eng EXCEPT ![e].pc = "done", ![e].result = "thrown",
                     ![e].error = message]

\* an exception inside run()'s try block: control goes to the catch clause
Raise(e, message) ==
  eng' = [eng EXCEPT ![e].pc = "catch", ![e].error = message,
                     ![e].raised = message]

\* ------------------------------------------------------------ environment
\* Between two runs: the environment is let move after the first run of the
\* behaviour has ended and before its last one starts.
Quiescent ==
  /\ \A e \in Engines : eng[e].pc \in {"idle", "done"}
  /\ 0 < runs /\ runs < MaxRuns

\* time passes
Tick ==
  /\ Quiescent
  /\ (now % SecondsPerDay) < MaxTicksPerDay * ClockStep
  /\ now' = now + ClockStep
  /\ UNCHANGED << options, utcOffset, schedVars, appVars, dbVars, eng, runs, faults, otherCalls >>

\* midnight passes
NextDay ==
  /\ Quiescent
  /\ DateOf(now) < MaxDay
  /\ now' = (DateOf(now) + 1) * SecondsPerDay
  /\ UNCHANGED << options, utcOffset, schedVars, appVars, dbVars, eng, runs, faults, otherCalls >>

\* another component (a route of the server, the post scheduler) records an
\* API call of its own
OtherApiCall ==
  /\ Quiescent
  /\ otherCalls < MaxOtherCalls
  /\ otherCalls' = otherCalls + 1
  /\ apiCalls' = trackApiCall
  /\ UNCHANGED << now, options, utcOffset, schedVars, appVars, user, connections, summary, sessions, queue,
                  trackedPosts, events, insights, eng, runs, faults >>

\* migration 002 removes the duplicate connections, keeping the oldest
FixDuplicates ==
  LET dup == {c \in DOMAIN connections :
                \E o \in DOMAIN connections :
                  o < c /\ connections[o].urn = connections[c].urn}
  IN  /\ Quiescent
      /\ dup # {}
      /\ connections' = [c \in DOMAIN connections \ dup |-> connections[c]]
      /\ UNCHANGED << now, options, utcOffset, schedVars, appVars, user, summary, sessions, apiCalls, queue,
                      trackedPosts, events, insights, eng, runs, faults,
                      otherCalls >>

\* -------------------------------------------------------------------- run
\* the trigger surface: new SyncEngine(options).run(userSub)
run(e) ==
  /\ eng[e].pc \in {"idle", "done"}
  /\ runs < MaxRuns
  /\ runs' = runs + 1
  /\ eng' = [eng EXCEPT ![e] = [SyncEngine(options) EXCEPT !.pc = "initialize"]]
  /\ UNCHANGED << now, options, utcOffset, schedVars, appVars, dbVars, faults, otherCalls >>

\* initialize, lines 28-32: today's date and the lookup of today's session
initialize(e) ==
  /\ At(e, "initialize")
  /\ eng' = [eng EXCEPT ![e].today = DateOf(now),
                        ![e].session = getSyncSession(DateOf(now)),
                        ![e].pc = "init_session"]
  /\ UNCHANGED << now, options, utcOffset, schedVars, appVars, dbVars, runs, faults, otherCalls >>

\* initialize, lines 34-48: create the session, or resume a paused one
initSession(e) ==
  /\ At(e, "init_session")
  /\ IF eng[e].session = NoRow
     THEN IF \E i \in Indices(sessions) :
               SessionConflict(sessions[i], eng[e].today)
          THEN \* the INSERT violates UNIQUE(session_date)
               /\ Throw(e, "SQLITE_CONSTRAINT")
               /\ UNCHANGED sessions
          ELSE LET row == NewSessionRow(Len(sessions) + 1,
                            [session_date |-> eng[e].today,
                             status |-> "running",
                             api_calls_limit |-> eng[e].usableLimit,
                             started_at |-> now])
               IN  /\ sessions' = Append(sessions, row)
                   /\ eng' = [eng EXCEPT ![e].session = row,
                                         ![e].sessionId = row.id,
                                         ![e].pc = "init_usage"]
     ELSE /\ eng' = [eng EXCEPT
                       ![e].apiCallsUsed =
                          IF eng[e].session.status = "paused"
                          THEN eng[e].session.api_calls_used ELSE @,
                       ![e].sessionId = eng[e].session.id,
                       ![e].pc = "init_usage"]
          /\ UNCHANGED sessions
  /\ UNCHANGED << now, options, utcOffset, schedVars, appVars, user, connections, summary, apiCalls, queue,
                  trackedPosts, events, insights, runs, faults, otherCalls >>

\* initialize, lines 50-54: the counter is set to today's api_calls count
initUsage(e) ==
  /\ At(e, "init_usage")
  /\ eng' = [eng EXCEPT ![e].apiCallsUsed = getTodayApiCallCount,
                        ![e].usedAtInit = getTodayApiCallCount,
                        ![e].pc = "get_user"]
  /\ UNCHANGED << now, options, utcOffset, schedVars, appVars, dbVars, runs, faults, otherCalls >>

\* a database call of initialize, or db.getUser, rejects: run() has no
\* handler around them
rejectBeforeTry(e) ==
  /\ eng[e].pc \in {"initialize", "init_session", "init_usage", "get_user"}
  /\ CanFault
  /\ faults' = faults + 1
  /\ Throw(e, "SQLITE_ERROR")
  /\ UNCHANGED << now, options, utcOffset, schedVars, appVars, dbVars, runs, otherCalls >>

\* run, lines 64-68
getUser(e) ==
  /\ At(e, "get_user")
  /\ IF user = NoRow \/ ~user.access_token
     THEN Throw(e, "No access token found")
     ELSE eng' = [eng EXCEPT ![e].pc = "syncRecentPosts"]
  /\ UNCHANGED << now, options, utcOffset, schedVars, appVars, dbVars, runs, faults, otherCalls >>

\* ---------------------------------------------------------- consumeAPI
\* consumeAPI, line 125: this.apiCallsUsed += calls
consumeCount(e, calls, next) ==
  [eng EXCEPT ![e].apiCallsUsed = @ + calls, ![e].pc = next]

\* consumeAPI, lines 131-133: the counter is written onto the session
consumePersist(e) ==
  updateSyncSession(eng[e].sessionId, [api_calls_used |-> eng[e].apiCallsUsed])

\* --------------------------------------------------------- syncRecentPosts
\* lines 140-160: skip without budget, else GET /rest/posts
syncRecentPosts(e) ==
  /\ At(e, "syncRecentPosts")
  /\ IF ~canAfford(e, 1)
     THEN eng' = [eng EXCEPT ![e].pc = "markAIRelevantConnections"]
     ELSE eng' = [eng EXCEPT ![e].issued = @ + 1, ![e].pc = "posts_inflight"]
  /\ UNCHANGED << now, options, utcOffset, schedVars, appVars, dbVars, runs, faults, otherCalls >>

\* the response arrives with the user's first k posts: consumeAPI(1) starts
postsResponse(e) ==
  /\ At(e, "posts_inflight")
  /\ \E k \in 0..MaxPosts :
       eng' = [consumeCount(e, 1, "posts_track") EXCEPT
                 ![e].posts = [i \in 1..k |-> i]]
  /\ UNCHANGED << now, options, utcOffset, schedVars, appVars, dbVars, runs, faults, otherCalls >>

\* the request fails: lines 178-180 log the error and go on
postsRequestFails(e) ==
  /\ At(e, "posts_inflight")
  /\ CanFault
  /\ faults' = faults + 1
  /\ eng' = [eng EXCEPT ![e].pc = "markAIRelevantConnections"]
  /\ UNCHANGED << now, options, utcOffset, schedVars, appVars, dbVars, runs, otherCalls >>

\* consumeAPI, line 126
postsTrack(e) ==
  /\ At(e, "posts_track")
  /\ apiCalls' = trackApiCall
  /\ eng' = [eng EXCEPT ![e].pc = "posts_persist"]
  /\ UNCHANGED << now, options, utcOffset, schedVars, appVars, user, connections, summary, sessions, queue,
                  trackedPosts, events, insights, runs, faults, otherCalls >>

\* consumeAPI, lines 131-133
postsPersist(e) ==
  /\ At(e, "posts_persist")
  /\ sessions' = consumePersist(e)
  /\ eng' = [eng EXCEPT ![e].pc = "posts_save"]
  /\ UNCHANGED << now, options, utcOffset, schedVars, appVars, user, connections, summary, apiCalls, queue,
                  trackedPosts, events, insights, runs, faults, otherCalls >>

\* lines 164-174: db.saveTrackedPost for every post of the response
postsSave(e) ==
  /\ At(e, "posts_save")
  /\ trackedPosts' = trackedPosts \cup SeqToSet(eng[e].posts)
  /\ eng' = [eng EXCEPT ![e].posts = << >>,
                        ![e].pc = "markAIRelevantConnections"]
  /\ UNCHANGED << now, options, utcOffset, schedVars, appVars, user, connections, summary, sessions, apiCalls,
                  queue, events, insights, runs, faults, otherCalls >>

\* a database call of syncRecentPosts rejects and the rejection leaves
\* syncRecentPosts, as it would without the try block of lines 147-180
rejectInPostsEscaping(e) ==
  /\ eng[e].pc \in {"posts_track", "posts_persist", "posts_save"}
  /\ CanFault
  /\ faults' = faults + 1
  /\ Raise(e, "SQLITE_ERROR")
  /\ UNCHANGED << now, options, utcOffset, schedVars, appVars, dbVars, runs, otherCalls >>

\* a database call of syncRecentPosts rejects: caught by lines 178-180
rejectInPosts(e) ==
  /\ eng[e].pc \in {"posts_track", "posts_persist", "posts_save"}
  /\ CanFault
  /\ faults' = faults + 1
  /\ eng' = [eng EXCEPT ![e].posts = << >>,
                        ![e].pc = "markAIRelevantConnections"]
  /\ UNCHANGED << now, options, utcOffset, schedVars, appVars, dbVars, runs, otherCalls >>

\* ------------------------------------------------ markAIRelevantConnections
markAIRelevantConnections(e) ==
  /\ At(e, "markAIRelevantConnections")
  /\ summary' = markAIRelevantByKeywords
  /\ eng' = [eng EXCEPT ![e].pc = "buildSyncQueue"]
  /\ UNCHANGED << now, options, utcOffset, schedVars, appVars, user, connections, sessions, apiCalls, queue,
                  trackedPosts, events, insights, runs, faults, otherCalls >>

\* ------------------------------------------------------------ buildSyncQueue
\* the recency bonus with the boundary days in the upper tier
RecencyBonusInclusive(connected_on, t) ==
  IF connected_on = InvalidDate THEN 0
  ELSE IF t - connected_on <= 7 * SecondsPerDay THEN 30
  ELSE IF t - connected_on <= 30 * SecondsPerDay THEN 20
  ELSE IF t - connected_on <= 90 * SecondsPerDay THEN 10
  ELSE 0

\* recency bonus of lines 258-261; connectedDaysAgo = (t - connected_on)/86400
\* and a date that does not parse gives NaN, which is below nothing
RecencyBonus(connected_on, t) ==
  IF connected_on = InvalidDate THEN 0
  ELSE IF t - connected_on < 7 * SecondsPerDay THEN 30
  ELSE IF t - connected_on < 30 * SecondsPerDay THEN 20
  ELSE IF t - connected_on < 90 * SecondsPerDay THEN 10
  ELSE 0

\* the score without the cap of line 273
uncappedPriority(connection, summ, t) ==
  (IF summ # NoRow /\ summ.ai_relevant THEN RelevantBonus ELSE 0)
  + RecencyBonus(connection.connected_on, t)
  + (IF summ # NoRow /\ summ.total_engagements > 0 THEN HistoryBonus ELSE 0)
  + (IF summ # NoRow /\ summ.status = "active" THEN ActiveBonus ELSE 0)

\* calculateConnectionPriority(connection), with summ the connection's
\* engagement summary and t the time
calculateConnectionPriority(connection, summ, t) ==
  LET score ==
        (IF summ # NoRow /\ summ.ai_relevant THEN RelevantBonus ELSE 0)
        + RecencyBonus(connection.connected_on, t)
        + (IF summ # NoRow /\ summ.total_engagements > 0
           THEN HistoryBonus ELSE 0)
        + (IF summ # NoRow /\ summ.status = "active" THEN ActiveBonus ELSE 0)
  IN  Min(MaxPriority, score)

\* lines 227-236 for the first k connections of `ids`, on queue table q
RECURSIVE enqueueAll(_, _, _)
enqueueAll(q, ids, k) ==
  IF k = 0 \/ ids = << >> THEN q
  ELSE enqueueAll(
         addToSyncQueue(q,
           [connection_id |-> Head(ids),
            priority |-> calculateConnectionPriority(
                           connections[Head(ids)], summary[Head(ids)], now),
            status |-> "pending"]),
         Tail(ids), k - 1)

\* the queue table after buildSyncQueue's loop over all connections
rebuiltQueue(q) == enqueueAll(q, getAllConnections, Len(getAllConnections))

\* buildSyncQueue, lines 218-243
buildSyncQueue(e) ==
  /\ At(e, "buildSyncQueue")
  /\ queue' = rebuiltQueue(queue)
  /\ sessions' = updateSyncSession(eng[e].sessionId,
                   [total_connections |-> Len(getAllConnections)])
  /\ eng' = [eng EXCEPT ![e].pc = "processQueue"]
  /\ UNCHANGED << now, options, utcOffset, schedVars, appVars, user, connections, summary, apiCalls,
                  trackedPosts, events, insights, runs, faults, otherCalls >>

\* a database call of buildSyncQueue rejects after k connections were queued
buildSyncQueueFails(e) ==
  /\ At(e, "buildSyncQueue")
  /\ CanFault
  /\ faults' = faults + 1
  /\ \E k \in 0..Len(getAllConnections) :
       queue' = enqueueAll(queue, getAllConnections, k)
  /\ Raise(e, "SQLITE_ERROR")
  /\ UNCHANGED << now, options, utcOffset, schedVars, appVars, user, connections, summary, sessions, apiCalls,
                  trackedPosts, events, insights, runs, otherCalls >>

\* ------------------------------------------------------------- processQueue
\* db.getTrackedPosts(userSub, limit): the newest `limit` tracked posts
RECURSIVE newestFirst(_)
newestFirst(ps) ==
  IF ps = {} THEN << >>
  ELSE LET m == CHOOSE p \in ps : \A o \in ps : o <= p
       IN  << m >> \o newestFirst(ps \ {m})

getTrackedPosts(limit) ==
  SubSeq(newestFirst(trackedPosts), 1, Min(limit, Cardinality(trackedPosts)))

\* the loop of processQueue without the exit on an empty batch
processQueueWithoutExit(e) ==
  /\ At(e, "processQueue")
  /\ IF eng[e].hasMore /\ canAfford(e, 5)
     THEN LET batch == getNextSyncBatch(eng[e].batchSize)
          IN  eng' = [eng EXCEPT ![e].batch = batch,
                                 ![e].fetched = batch,
                                 ![e].batchAt = now,
                                 ![e].pc = "item"]
     ELSE eng' = [eng EXCEPT ![e].pc = "drain_end"]
  /\ UNCHANGED << now, options, utcOffset, schedVars, appVars, dbVars, runs, faults, otherCalls >>

\* lines 285-292: the while condition and the batch query
processQueue(e) ==
  /\ At(e, "processQueue")
  /\ IF eng[e].hasMore /\ canAfford(e, 5)
     THEN LET batch == getNextSyncBatch(eng[e].batchSize)
          IN  IF Len(batch) = 0
              THEN eng' = [eng EXCEPT ![e].hasMore = FALSE,
                                      ![e].pc = "drain_end"]
              ELSE eng' = [eng EXCEPT ![e].batch = batch,
                                      ![e].fetched = batch,
                                      ![e].batchAt = now,
                                      ![e].pc = "item"]
     ELSE eng' = [eng EXCEPT ![e].pc = "drain_end"]
  /\ UNCHANGED << now, options, utcOffset, schedVars, appVars, dbVars, runs, faults, otherCalls >>

\* lines 296-304 and 340: the next item of the batch, admitted if two calls
\* are affordable; its sync starts by reading the tracked posts
nextItem(e) ==
  /\ At(e, "item")
  /\ IF eng[e].batch = << >>
     THEN eng' = [eng EXCEPT ![e].pc = "processQueue"]
     ELSE IF ~canAfford(e, 2)
     THEN eng' = [eng EXCEPT ![e].hasMore = FALSE, ![e].pc = "drain_end"]
     ELSE eng' = [eng EXCEPT ![e].item = Head(eng[e].batch),
                             ![e].batch = Tail(eng[e].batch),
                             ![e].posts = getTrackedPosts(PostWindow),
                             ![e].pc = "sync_post"]
  /\ UNCHANGED << now, options, utcOffset, schedVars, appVars, dbVars, runs, faults, otherCalls >>

\* syncConnectionEngagement, lines 342-346: the next post, if one call is
\* affordable: GET /rest/socialActions
syncConnectionEngagement(e) ==
  /\ At(e, "sync_post")
  /\ IF eng[e].posts = << >> \/ ~canAfford(e, 1)
     THEN eng' = [eng EXCEPT ![e].pc = "sync_summary"]
     ELSE eng' = [eng EXCEPT ![e].post = Head(eng[e].posts),
                             ![e].posts = Tail(eng[e].posts),
                             ![e].issued = @ + 1,
                             ![e].pc = "engagement_inflight"]
  /\ UNCHANGED << now, options, utcOffset, schedVars, appVars, dbVars, runs, faults, otherCalls >>

\* fetchPostEngagement returns the response's elements, or [] when the
\* request failed, whatever the error response was, HTTP 429 (rate limit)
\* included (lines 376-381); consumeAPI(1) starts either way
fetchPostEngagement(e) ==
  /\ At(e, "engagement_inflight")
  /\ \/ /\ eng' = [consumeCount(e, 1, "engagement_track") EXCEPT
                     ![e].engagement = LinkedInEngagement(eng[e].post)]
        /\ UNCHANGED faults
     \/ /\ CanFault
        /\ faults' = faults + 1
        /\ eng' = [consumeCount(e, 1, "engagement_track") EXCEPT
                     ![e].engagement = {},
                     ![e].refusedAt = eng[e].issued]
  /\ UNCHANGED << now, options, utcOffset, schedVars, appVars, dbVars, runs, otherCalls >>

\* consumeAPI, line 126
engagementTrack(e) ==
  /\ At(e, "engagement_track")
  /\ apiCalls' = trackApiCall
  /\ eng' = [eng EXCEPT ![e].pc = "engagement_persist"]
  /\ UNCHANGED << now, options, utcOffset, schedVars, appVars, user, connections, summary, sessions, queue,
                  trackedPosts, events, insights, runs, faults, otherCalls >>

\* consumeAPI, lines 131-133
engagementPersist(e) ==
  /\ At(e, "engagement_persist")
  /\ sessions' = consumePersist(e)
  /\ eng' = [eng EXCEPT ![e].pc = "engagement_process"]
  /\ UNCHANGED << now, options, utcOffset, schedVars, appVars, user, connections, summary, apiCalls, queue,
                  trackedPosts, events, insights, runs, faults, otherCalls >>

\* every actor of a response attributed to the connection
allEvents(connectionId, postId, engagementData) ==
  IF engagementData = {} THEN << >>
  ELSE [i \in 1..Cardinality(engagementData) |->
          [connection_id |-> connectionId, post_id |-> postId,
           actor |-> CHOOSE a \in engagementData :
                       Cardinality({b \in engagementData : b < a}) = i - 1,
           happened_at |-> 0]]

\* the rows processEngagementForConnection saves for a connection, a post
\* and the actors of a response, in the order of the response (lines
\* 387-409); every engagement reported carries created.time = 0
RECURSIVE matchedEvents(_, _, _)
matchedEvents(connectionId, postId, engagementData) ==
  IF getConnectionById(connectionId) = NoRow \/ engagementData = {} THEN << >>
  ELSE LET a == CHOOSE x \in engagementData : \A y \in engagementData : x <= y
           rest == matchedEvents(connectionId, postId, engagementData \ {a})
       IN  IF isEngagementFromConnection(a, connectionId)
           THEN << [connection_id |-> connectionId, post_id |-> postId,
                    actor |-> a, happened_at |-> 0] >> \o rest
           ELSE rest

\* processEngagementForConnection
processEngagementForConnection(e) ==
  /\ At(e, "engagement_process")
  /\ events' = events \o matchedEvents(eng[e].item.connection_id,
                                       eng[e].post, eng[e].engagement)
  /\ eng' = [eng EXCEPT ![e].pc = "sync_post"]
  /\ UNCHANGED << now, options, utcOffset, schedVars, appVars, user, connections, summary, sessions, apiCalls,
                  queue, trackedPosts, insights, runs, faults, otherCalls >>

\* syncConnectionEngagement, line 355
syncSummary(e) ==
  /\ At(e, "sync_summary")
  /\ summary' = updateEngagementSummary(eng[e].item.connection_id, events)
  /\ eng' = [eng EXCEPT ![e].engagement = {}, ![e].post = 0,
                        ![e].pc = "item_done"]
  /\ UNCHANGED << now, options, utcOffset, schedVars, appVars, user, connections, sessions, apiCalls, queue,
                  trackedPosts, events, insights, runs, faults, otherCalls >>

\* processQueue, lines 306-311
itemCompleted(e) ==
  /\ At(e, "item_done")
  /\ queue' = updateQueueItem(eng[e].item.id, [status |-> "completed"])
  /\ eng' = [eng EXCEPT ![e].processed = @ + 1,
                        ![e].synced = Append(@, eng[e].item.connection_id),
                        ![e].item = NoRow,
                        ![e].pc = "item"]
  /\ UNCHANGED << now, options, utcOffset, schedVars, appVars, user, connections, summary, sessions, apiCalls,
                  trackedPosts, events, insights, runs, faults, otherCalls >>

\* a database call inside the per-item try block rejects (lines 303-311):
\* control goes to the catch clause of line 313
rejectInItem(e) ==
  /\ eng[e].pc \in {"sync_post", "engagement_track", "engagement_persist",
                    "engagement_process", "sync_summary", "item_done"}
  /\ CanFault
  /\ faults' = faults + 1
  /\ eng' = [eng EXCEPT ![e].posts = << >>, ![e].engagement = {},
                        ![e].post = 0, ![e].error = "SQLITE_ERROR",
                        ![e].pc = "item_failed"]
  /\ UNCHANGED << now, options, utcOffset, schedVars, appVars, dbVars, runs, otherCalls >>

\* the fields of a failed item if a back-off already set were kept
failedFieldsKeepingRetry(item, message, t) ==
  [status |-> "failed", attempts |-> item.attempts + 1,
   error_message |-> message,
   next_retry |-> IF item.next_retry # NoTime THEN item.next_retry
                  ELSE t + RetryDelay]

\* the fields lines 316-322 write on a failed item
failedFields(item, message, t) ==
  [status |-> "failed", attempts |-> item.attempts + 1,
   error_message |-> message, next_retry |-> t + RetryDelay]

\* the catch of line 313 if it rethrew after recording the failure
itemFailedRethrowing(e) ==
  /\ At(e, "item_failed")
  /\ queue' = updateQueueItem(eng[e].item.id,
                              failedFields(eng[e].item, eng[e].error, now))
  /\ eng' = [eng EXCEPT ![e].item = NoRow, ![e].raised = eng[e].error,
                        ![e].pc = "catch"]
  /\ UNCHANGED << now, options, utcOffset, schedVars, appVars, user, connections, summary, sessions, apiCalls,
                  trackedPosts, events, insights, runs, faults, otherCalls >>

\* processQueue, lines 313-323
itemFailed(e) ==
  /\ At(e, "item_failed")
  /\ queue' = updateQueueItem(eng[e].item.id,
                              failedFields(eng[e].item, eng[e].error, now))
  /\ eng' = [eng EXCEPT ![e].item = NoRow, ![e].error = NULL, ![e].pc = "item"]
  /\ UNCHANGED << now, options, utcOffset, schedVars, appVars, user, connections, summary, sessions, apiCalls,
                  trackedPosts, events, insights, runs, faults, otherCalls >>

\* processQueue, lines 327-329
drainEnd(e) ==
  /\ At(e, "drain_end")
  /\ sessions' = updateSyncSession(eng[e].sessionId,
                                   [connections_synced |-> eng[e].processed])
  /\ eng' = [eng EXCEPT ![e].batch = << >>, ![e].pc = "calculateInsights"]
  /\ UNCHANGED << now, options, utcOffset, schedVars, appVars, user, connections, summary, apiCalls, queue,
                  trackedPosts, events, insights, runs, faults, otherCalls >>

\* --------------------------------------------------------- calculateInsights
\* the data calculateInsights computes for the i-th insight type
insightData(i) ==
  IF i = 1 THEN getTopEngagers
  ELSE IF i = 2 THEN getRisingStars
  ELSE getAtRiskConnections

\* lines 429-431: the first k saves of calculateInsights on table t
RECURSIVE saveInsights(_, _, _)
saveInsights(t, today, k) ==
  IF k = 0 THEN t
  ELSE saveInsight(saveInsights(t, today, k - 1), User, today,
                   InsightTypes[k], insightData(k))

\* calculateInsights, lines 414-434
calculateInsights(e) ==
  /\ At(e, "calculateInsights")
  /\ insights' = saveInsights(insights, DateOf(now), Len(InsightTypes))
  /\ eng' = [eng EXCEPT ![e].pc = "complete"]
  /\ UNCHANGED << now, options, utcOffset, schedVars, appVars, user, connections, summary, sessions, apiCalls,
                  queue, trackedPosts, events, runs, faults, otherCalls >>

\* a database call of calculateInsights rejects after k insights were saved
calculateInsightsFails(e) ==
  /\ At(e, "calculateInsights")
  /\ CanFault
  /\ faults' = faults + 1
  /\ \E k \in 0..(Len(InsightTypes) - 1) :
       insights' = saveInsights(insights, DateOf(now), k)
  /\ Raise(e, "SQLITE_ERROR")
  /\ UNCHANGED << now, options, utcOffset, schedVars, appVars, user, connections, summary, sessions, apiCalls,
                  queue, trackedPosts, events, runs, otherCalls >>

\* ------------------------------------------------------------ the end of run
\* run, lines 86-99: the session is marked completed and run() returns
complete(e) ==
  /\ At(e, "complete")
  /\ sessions' = updateSyncSession(eng[e].sessionId,
                   [status |-> "completed", completed_at |-> now,
                    api_calls_used |-> eng[e].apiCallsUsed])
  /\ eng' = [eng EXCEPT ![e].pc = "done", ![e].result = "success"]
  /\ UNCHANGED << now, options, utcOffset, schedVars, appVars, user, connections, summary, apiCalls, queue,
                  trackedPosts, events, insights, runs, faults, otherCalls >>

\* a database call made directly by a step of the try block rejects: the
\* relevance pass, the batch query, the failed-item update, the progress
\* update, the completion update
rejectInStep(e) ==
  /\ eng[e].pc \in {"markAIRelevantConnections", "processQueue", "item_failed",
                    "drain_end", "complete"}
  /\ eng[e].pc = "processQueue" => eng[e].hasMore /\ canAfford(e, 5)
  /\ CanFault
  /\ faults' = faults + 1
  /\ Raise(e, "SQLITE_ERROR")
  /\ UNCHANGED << now, options, utcOffset, schedVars, appVars, dbVars, runs, otherCalls >>

\* the catch clause as it would be if it rethrew without the checkpoint
catchWithoutCheckpoint(e) ==
  /\ At(e, "catch")
  /\ eng' = [eng EXCEPT ![e].pc = "done", ![e].result = "thrown"]
  /\ UNCHANGED << now, options, utcOffset, schedVars, appVars, dbVars, runs, faults, otherCalls >>

\* run, lines 101-111: the catch clause pauses the session and rethrows
catch(e) ==
  /\ At(e, "catch")
  /\ sessions' = updateSyncSession(eng[e].sessionId,
                   [status |-> "paused", paused_at |-> now,
                    api_calls_used |-> eng[e].apiCallsUsed,
                    error_message |-> eng[e].error])
  /\ eng' = [eng EXCEPT ![e].pc = "done", ![e].result = "thrown"]
  /\ UNCHANGED << now, options, utcOffset, schedVars, appVars, user, connections, summary, apiCalls, queue,
                  trackedPosts, events, insights, runs, faults, otherCalls >>

\* ---------------------------------------------------------- specification
\* one step of engine e
Step(e) ==
  \/ run(e)
  \/ initialize(e)
  \/ initSession(e)
  \/ initUsage(e)
  \/ rejectBeforeTry(e)
  \/ getUser(e)
  \/ syncRecentPosts(e)
  \/ postsResponse(e)
  \/ postsRequestFails(e)
  \/ postsTrack(e)
  \/ postsPersist(e)
  \/ postsSave(e)
  \/ rejectInPosts(e)
  \/ markAIRelevantConnections(e)
  \/ buildSyncQueue(e)
  \/ buildSyncQueueFails(e)
  \/ processQueue(e)
  \/ nextItem(e)
  \/ syncConnectionEngagement(e)
  \/ fetchPostEngagement(e)
  \/ engagementTrack(e)
  \/ engagementPersist(e)
  \/ processEngagementForConnection(e)
  \/ syncSummary(e)
  \/ itemCompleted(e)
  \/ rejectInItem(e)
  \/ itemFailed(e)
  \/ drainEnd(e)
  \/ calculateInsights(e)
  \/ calculateInsightsFails(e)
  \/ complete(e)
  \/ rejectInStep(e)
  \/ catch(e)

\* ============================================================ post scheduler
\* INSERT INTO scheduled_posts with the column defaults of the schema
NewScheduledPost(id, publishAt) ==
  [id |-> id, publish_at |-> publishAt, status |-> "pending",
   published_at |-> NoTime, error_message |-> NULL]

\* db.getPendingScheduledPosts(): the pending rows due at time t. A row's
\* publish_at is one clock step after its insertion, so rowid order is the
\* order of ORDER BY publish_at ASC
getPendingScheduledPosts(t) ==
  SelectSeq(scheduledPosts,
            LAMBDA row : row.status = "pending" /\ row.publish_at <= t)

\* db.updateScheduledPostStatus(id, status, linkedinPostId, errorMessage):
\* the table after the update; published_at is set for 'published' only
updateScheduledPostStatus(id, status, errorMessage) ==
  [i \in Indices(scheduledPosts) |->
     IF scheduledPosts[i].id = id
     THEN [scheduledPosts[i] EXCEPT
             !.status = status,
             !.error_message = errorMessage,
             !.published_at = IF status = "published" THEN now ELSE NoTime]
     ELSE scheduledPosts[i]]

\* db.getTodayScheduledPostCount(userSub): rows published since local
\* midnight
getTodayScheduledPostCount ==
  Cardinality({i \in Indices(scheduledPosts) :
                 /\ scheduledPosts[i].status = "published"
                 /\ scheduledPosts[i].published_at >= todayStart(now)})

\* constructor of PostScheduler's callback: a cron invocation not in progress
IdleJob ==
  [pc |-> "idle", pendingPosts |-> << >>, post |-> NoRow,
   error |-> NULL, hasResponse |-> FALSE]

\* the schedule route between two requests
IdleRequest == [pc |-> "idle", publish_at |-> NoTime]

\* the scheduler before its first tick, on an empty scheduled_posts table
SchedulerIdle ==
  /\ scheduledPosts = << >>
  /\ sent = << >>
  /\ jobs = [j \in Jobs |-> IdleJob]
  /\ request = IdleRequest

\* The interleavings followed: a second callback may start while the first
\* awaits LinkedIn's answer, and the first goes on when the second has
\* ended; requests and clock steps come between the callbacks.
Turn(j) == j = 2 \/ jobs[2].pc = "idle"

SchedulerQuiet ==
  /\ \A j \in Jobs : jobs[j].pc = "idle"
  /\ request.pc = "idle"

JobAt(j, label) == Turn(j) /\ jobs[j].pc = label

\* the variables of the sync engine, which the scheduler leaves alone
syncVars == << options, utcOffset, connections, summary, sessions, queue,
               trackedPosts, events, insights, eng, runs, otherCalls >>

\* ------------------------------------------------------- the schedule route
\* POST /api/posts/schedule passes validateSchedulePost: the publish time is
\* in the future; the handler awaits getTodayScheduledPostCount
scheduleRequest ==
  /\ SchedulerQuiet
  /\ Len(scheduledPosts) < MaxScheduled
  /\ request' = [pc |-> "count", publish_at |-> now + ClockStep]
  /\ UNCHANGED << now, user, apiCalls, faults, syncVars, appVars, scheduledPosts,
                  sent, jobs >>

\* the handler's daily limit check, and createScheduledPost if it passes
scheduleCreate ==
  /\ request.pc = "count"
  /\ IF getTodayScheduledPostCount >= DailyPostLimit
     THEN UNCHANGED << scheduledPosts, sent >>
     ELSE /\ scheduledPosts' =
               Append(scheduledPosts,
                      NewScheduledPost(Len(scheduledPosts) + 1,
                                       request.publish_at))
          /\ sent' = Append(sent, 0)
  /\ request' = IdleRequest
  /\ UNCHANGED << now, user, apiCalls, faults, syncVars, appVars, jobs >>

\* ------------------------------------------------------------ PostScheduler
\* the cron expression fires: processScheduledPosts starts and awaits
\* getPendingScheduledPosts, whether or not an earlier invocation is still
\* in progress
cronFires(j) ==
  /\ jobs[j].pc = "idle"
  /\ request.pc = "idle"
  /\ j = 1 \/ jobs[1].pc = "post_inflight"
  /\ jobs' = [jobs EXCEPT ![j].pc = "pending_query"]
  /\ UNCHANGED << now, user, apiCalls, faults, syncVars, appVars, scheduledPosts,
                  sent, request >>

\* the loop of processScheduledPosts goes to the next post of its list
nextPost(j, rest) ==
  IF rest = << >>
  THEN [jobs EXCEPT ![j] = IdleJob]
  ELSE [jobs EXCEPT ![j] = [IdleJob EXCEPT !.pc = "publish",
                                           !.pendingPosts = Tail(rest),
                                           !.post = Head(rest)]]

\* processScheduledPosts: the pending posts arrive
processScheduledPosts(j) ==
  /\ JobAt(j, "pending_query")
  /\ jobs' = nextPost(j, getPendingScheduledPosts(now))
  /\ UNCHANGED << now, user, apiCalls, faults, syncVars, appVars, scheduledPosts,
                  sent, request >>

\* publishPost: the user row arrives; without a token the catch block
\* starts, else the POST to LinkedIn is issued
publishPost(j) ==
  /\ JobAt(j, "publish")
  /\ IF user = NoRow \/ ~user.access_token
     THEN /\ jobs' = [jobs EXCEPT ![j].pc = "mark_failed",
                                  ![j].error = "User access token not found"]
          /\ UNCHANGED sent
     ELSE /\ jobs' = [jobs EXCEPT ![j].pc = "post_inflight"]
          /\ sent' = [sent EXCEPT ![jobs[j].post.id] = @ + 1]
  /\ UNCHANGED << now, user, apiCalls, faults, syncVars, appVars, scheduledPosts,
                  request >>

\* LinkedIn answers 201: updateScheduledPostStatus(id, 'published') starts
postAccepted(j) ==
  /\ JobAt(j, "post_inflight")
  /\ jobs' = [jobs EXCEPT ![j].pc = "mark_published"]
  /\ UNCHANGED << now, user, apiCalls, faults, syncVars, appVars, scheduledPosts,
                  sent, request >>

\* the POST fails, with an error response of LinkedIn or without any
postFails(j) ==
  /\ JobAt(j, "post_inflight")
  /\ CanFault
  /\ faults' = faults + 1
  /\ \E withResponse \in BOOLEAN :
       jobs' = [jobs EXCEPT ![j].pc = "mark_failed",
                            ![j].error = "Request failed",
                            ![j].hasResponse = withResponse]
  /\ UNCHANGED << now, user, apiCalls, syncVars, appVars, scheduledPosts, sent,
                  request >>

\* the row is marked published; trackApiCall starts
markPublished(j) ==
  /\ JobAt(j, "mark_published")
  /\ scheduledPosts' = updateScheduledPostStatus(jobs[j].post.id,
                                                 "published", NULL)
  /\ jobs' = [jobs EXCEPT ![j].pc = "track"]
  /\ UNCHANGED << now, user, apiCalls, faults, syncVars, appVars, sent, request >>

\* the API call of a published post is recorded; the loop goes on
trackPublished(j) ==
  /\ JobAt(j, "track")
  /\ apiCalls' = trackApiCall
  /\ jobs' = nextPost(j, jobs[j].pendingPosts)
  /\ UNCHANGED << now, user, faults, syncVars, appVars, scheduledPosts, sent,
                  request >>

\* a database call in the try block of publishPost rejects: the catch block
\* starts
rejectInPublish(j) ==
  /\ Turn(j)
  /\ jobs[j].pc \in {"publish", "mark_published", "track"}
  /\ CanFault
  /\ faults' = faults + 1
  /\ jobs' = [jobs EXCEPT ![j].pc = "mark_failed",
                          ![j].error = "SQLITE_ERROR"]
  /\ UNCHANGED << now, user, apiCalls, syncVars, appVars, scheduledPosts, sent,
                  request >>

\* the catch block of publishPost marks the row failed; an error that came
\* with a response is recorded as an API call next
markFailed(j) ==
  /\ JobAt(j, "mark_failed")
  /\ scheduledPosts' = updateScheduledPostStatus(jobs[j].post.id, "failed",
                                                 jobs[j].error)
  /\ jobs' = IF jobs[j].hasResponse
             THEN [jobs EXCEPT ![j].pc = "track_failed"]
             ELSE nextPost(j, jobs[j].pendingPosts)
  /\ UNCHANGED << now, user, apiCalls, faults, syncVars, appVars, sent, request >>

\* the API call of a refused post is recorded; the loop goes on
trackFailed(j) ==
  /\ JobAt(j, "track_failed")
  /\ apiCalls' = trackApiCall
  /\ jobs' = nextPost(j, jobs[j].pendingPosts)
  /\ UNCHANGED << now, user, faults, syncVars, appVars, scheduledPosts, sent,
                  request >>

\* a database call of processScheduledPosts or of publishPost's catch block
\* rejects: the catch of processScheduledPosts logs it and the invocation
\* ends, the rest of its list untouched
rejectInProcess(j) ==
  /\ Turn(j)
  /\ jobs[j].pc \in {"pending_query", "mark_failed", "track_failed"}
  /\ CanFault
  /\ faults' = faults + 1
  /\ jobs' = [jobs EXCEPT ![j] = IdleJob]
  /\ UNCHANGED << now, user, apiCalls, syncVars, appVars, scheduledPosts, sent,
                  request >>

\* one step of a cron invocation
Job(j) ==
  \/ cronFires(j)
  \/ processScheduledPosts(j)
  \/ publishPost(j)
  \/ postAccepted(j)
  \/ postFails(j)
  \/ markPublished(j)
  \/ trackPublished(j)
  \/ rejectInPublish(j)
  \/ markFailed(j)
  \/ trackFailed(j)
  \/ rejectInProcess(j)

\* time passes for the scheduler
ClockTick ==
  /\ SchedulerQuiet
  /\ (now % SecondsPerDay) < MaxTicksPerDay * ClockStep
  /\ now' = now + ClockStep
  /\ UNCHANGED << user, apiCalls, faults, syncVars, appVars, schedVars >>

\* midnight passes for the scheduler
ClockNextDay ==
  /\ SchedulerQuiet
  /\ DateOf(now) < MaxDay
  /\ now' = (DateOf(now) + 1) * SecondsPerDay
  /\ UNCHANGED << user, apiCalls, faults, syncVars, appVars, schedVars >>

\* ====================================================== the rate limiter
\* Date.now() of the server, in milliseconds
nowMs == now * 1000

\* rateLimit(maxRequests, windowMs) as the routes of the server install it
maxRequests(route) ==
  CASE route = "like" -> 3
    [] route = "fetch-profile" -> 10
    [] OTHER -> 20

windowMs(route) == WindowMs

\* the filter of rateLimit: a recorded request is still inside the window
withinHalfWindow(time, t, w) == t - time < w \div 2

withinWindow(time, t, w) == t - time < w

\* rateLimiters.get(key), with no entry read as the empty list
requestsOf(key) ==
  IF key \in DOMAIN rateLimiters THEN rateLimiters[key] ELSE << >>

\* the requests of the key rateLimit keeps, the present one appended
recentRequests(key, w) ==
  Append(SelectSeq(requestsOf(key), LAMBDA time : withinWindow(time, nowMs, w)),
         nowMs)

\* the variables the rate limiter leaves alone
rateRest ==
  << user, apiCalls, faults, syncVars, schedVars, migrationVars, workerVars >>

\* one request of the key reaches the middleware of the route: the list of
\* the key is filtered, the request is recorded, and it is answered 429 or
\* passed on to the handler (next)
rateLimit(route, key) ==
  /\ Len(answered) < MaxRequests
  /\ LET requests == recentRequests(key, windowMs(route))
     IN /\ rateLimiters' =
             [k \in DOMAIN rateLimiters \cup {key} |->
                IF k = key THEN requests ELSE rateLimiters[k]]
        /\ answered' =
             Append(answered,
                    [route |-> route, key |-> key, time |-> nowMs,
                     next |-> ~(Len(requests) > maxRequests(route))])
  /\ UNCHANGED << now, rateRest >>

\* the entries of a key the cleanup keeps
validRequests(key) ==
  SelectSeq(rateLimiters[key],
            LAMBDA time : withinWindow(time, nowMs, SecondsPerDay * 1000))

\* the cleanup timer of the server fires, every five minutes
rateLimiterCleanup ==
  /\ nowMs % CleanupInterval = 0
  /\ \E key \in DOMAIN rateLimiters : validRequests(key) # rateLimiters[key]
  /\ rateLimiters' =
       [key \in {k \in DOMAIN rateLimiters : validRequests(k) # << >>} |->
          validRequests(key)]
  /\ UNCHANGED << now, answered, rateRest >>

\* half a window passes
Elapse ==
  /\ now < MaxHalfWindows * (WindowMs \div 2000)
  /\ now' = now + WindowMs \div 2000
  /\ UNCHANGED << rateLimiters, answered, rateRest >>

\* a day passes
ElapseDay ==
  /\ DateOf(now) < MaxDay
  /\ now' = (DateOf(now) + 1) * SecondsPerDay
  /\ UNCHANGED << rateLimiters, answered, rateRest >>

RateLimiterIdle ==
  /\ rateLimiters = [k \in {} |-> << >>]
  /\ answered = << >>

\* ================================================== the migration runner
\* file.replace('.sql', '')
versionOf(file) ==
  CASE file = "001_engagement_system.sql" -> "001_engagement_system"
    [] file = "002_fix_duplicates.sql" -> "002_fix_duplicates"

\* fs.readdirSync(MIGRATIONS_DIR).filter(f => f.endsWith('.sql')).sort()
sortedFiles(dir) == SelectSeq(MigrationFiles, LAMBDA f : f \in dir)

\* the connections table after the SQL of the migration has run
execSql(version) ==
  IF version = "002_fix_duplicates"
  THEN LET dup == {c \in DOMAIN connections :
                     \E o \in DOMAIN connections :
                       o < c /\ connections[o].urn = connections[c].urn}
       IN [c \in DOMAIN connections \ dup |-> connections[c]]
  ELSE connections

IdleRunner ==
  [pc |-> "idle", applied |-> {}, files |-> << >>, index |-> 0,
   newMigrations |-> 0, exitCode |-> NoTime]

\* the variables the migration runner leaves alone
migrateRest ==
  << now, options, utcOffset, user, summary, sessions, apiCalls, queue,
     trackedPosts, events, insights, eng, runs, otherCalls, schedVars,
     rateVars, workerVars >>

\* a migration file is added to the migrations directory between two runs
addMigrationFile ==
  /\ runner.pc \in {"idle", "exited"}
  /\ \E file \in SeqToSet(MigrationFiles) \ migrationsDir :
       migrationsDir' = migrationsDir \cup {file}
  /\ UNCHANGED << schemaMigrations, executed, runner, migrateRuns,
                  connections, faults, migrateRest >>

\* node migrate.js: schema_migrations exists, runMigrations issues its SELECT
runMigrations ==
  /\ runner.pc \in {"idle", "exited"}
  /\ migrateRuns < MaxMigrateRuns
  /\ migrateRuns' = migrateRuns + 1
  /\ runner' = [IdleRunner EXCEPT !.pc = "select"]
  /\ UNCHANGED << schemaMigrations, executed, migrationsDir, connections,
                  faults, migrateRest >>

\* the runner's position after the migrations it skips: at the next file
\* whose version is not in applied it has called runMigration, and past the
\* last file it has resolved and the process exits with 0
advance(r, from) ==
  LET pending == { i \in from..Len(r.files) :
                     versionOf(r.files[i]) \notin r.applied }
  IN IF pending = {}
     THEN [r EXCEPT !.pc = "exited", !.index = Len(r.files) + 1,
                    !.exitCode = 0]
     ELSE [r EXCEPT !.pc = "exec",
                    !.index = CHOOSE i \in pending :
                                \A j \in pending : i <= j]

\* the SELECT answers: applied and files are read, the loop starts
selectApplied ==
  /\ runner.pc = "select"
  /\ runner' = advance([runner EXCEPT !.applied = schemaMigrations,
                                      !.files = sortedFiles(migrationsDir)],
                       1)
  /\ UNCHANGED << schemaMigrations, executed, migrationsDir, migrateRuns,
                  connections, faults, migrateRest >>

\* the SELECT fails: runMigrations rejects, the process exits with 1
selectFails ==
  /\ runner.pc = "select"
  /\ CanFault
  /\ faults' = faults + 1
  /\ runner' = [runner EXCEPT !.pc = "exited", !.exitCode = 1]
  /\ UNCHANGED << schemaMigrations, executed, migrationsDir, migrateRuns,
                  connections, migrateRest >>

\* db.exec(sql) has run the SQL of the file: runMigration issues the INSERT
execDone ==
  /\ runner.pc = "exec"
  /\ LET version == versionOf(runner.files[runner.index])
     IN /\ executed' = Append(executed, [version |-> version,
                                         run |-> migrateRuns, ok |-> TRUE])
        /\ connections' = execSql(version)
  /\ runner' = [runner EXCEPT !.pc = "insert"]
  /\ UNCHANGED << schemaMigrations, migrationsDir, migrateRuns, faults,
                  migrateRest >>

\* db.exec(sql) fails: runMigration rejects, runMigrations rejects and
\* returns, the process exits with 1
execFails ==
  /\ runner.pc = "exec"
  /\ CanFault
  /\ faults' = faults + 1
  /\ executed' = Append(executed,
                        [version |-> versionOf(runner.files[runner.index]),
                         run |-> migrateRuns, ok |-> FALSE])
  /\ runner' = [runner EXCEPT !.pc = "exited", !.exitCode = 1]
  /\ UNCHANGED << schemaMigrations, migrationsDir, migrateRuns, connections,
                  migrateRest >>

\* the INSERT into schema_migrations is done: runMigration resolves, the
\* loop counts the migration and goes on
recordDone ==
  /\ runner.pc = "insert"
  /\ schemaMigrations' =
       schemaMigrations \cup {versionOf(runner.files[runner.index])}
  /\ runner' = advance([runner EXCEPT !.newMigrations = @ + 1],
                       runner.index + 1)
  /\ UNCHANGED << executed, migrationsDir, migrateRuns, connections, faults,
                  migrateRest >>

\* the INSERT fails: runMigration rejects after the SQL has run
recordFails ==
  /\ runner.pc = "insert"
  /\ CanFault
  /\ faults' = faults + 1
  /\ runner' = [runner EXCEPT !.pc = "exited", !.exitCode = 1]
  /\ UNCHANGED << schemaMigrations, executed, migrationsDir, migrateRuns,
                  connections, migrateRest >>

MigrationsIdle ==
  /\ schemaMigrations = {}
  /\ executed = << >>
  /\ migrationsDir = {MigrationFiles[1]}
  /\ runner = IdleRunner
  /\ migrateRuns = 0

\* ===================================================== the LinkedIn worker
\* parseInt(await db.getSetting('daily_limit')) || 500
dailyLimitOf(s) ==
  IF s.daily_limit = 0 THEN DefaultReactionLimit ELSE s.daily_limit

\* getTodayReactionCount: the successful reactions since local midnight
getTodayReactionCount ==
  Cardinality({ i \in Indices(reactions) :
                  /\ reactions[i].timestamp >= todayStart(now)
                  /\ reactions[i].success })

\* saveReaction: the timestamp column defaults to the time of the insert
saveReaction(post, success) ==
  Append(reactions, [post_id |-> post, success |-> success, timestamp |-> now])

\* user.token_expires_at && user.token_expires_at < now
tokenExpired(u) ==
  /\ "token_expires_at" \in DOMAIN u
  /\ u.token_expires_at # 0
  /\ u.token_expires_at < now

IdleFeed == [pc |-> "idle", dailyLimit |-> 0, posts |-> << >>, index |-> 0]
IdleStart == [pc |-> "idle", feed |-> 0]
\* this.pollInterval = null
NoTimer == 0 - 1
NewWorker == [isRunning |-> FALSE, pollInterval |-> NoTimer]

\* the timers that setInterval has installed and clearInterval has not cleared
installed == { t \in Indices(intervals) : intervals[t] }

\* the variables the worker leaves alone
workerRest ==
  << options, utcOffset, connections, summary, sessions, apiCalls, queue,
     trackedPosts, events, insights, eng, runs, otherCalls, schedVars,
     rateVars, migrationVars >>

\* no processFeed is in progress in the slot, and no start() awaits one there
FreeFeed(f) ==
  /\ feeds[f].pc \in {"idle", "done"}
  /\ \A s \in Starts : starts[s].feed # f

\* the lowest free slot
FirstFree(f) == FreeFeed(f) /\ \A g \in Feeds : g < f => ~FreeFeed(g)

\* the body of stop(): it has no await
stopped(w) == [w EXCEPT !.isRunning = FALSE, !.pollInterval = NoTimer]

cleared(w) ==
  IF w.isRunning /\ w.pollInterval # NoTimer
  THEN [intervals EXCEPT ![w.pollInterval] = FALSE]
  ELSE intervals

\* stop() is called while the worker is running
stop ==
  /\ worker.isRunning
  /\ worker' = stopped(worker)
  /\ intervals' = cleared(worker)
  /\ UNCHANGED << now, user, faults, settings, reactions, processedPosts,
                  feeds, starts, invocations, workerRest >>

\* start() is called: it returns if the worker is running, and awaits the
\* automation_enabled setting otherwise
start(s) ==
  /\ starts[s].pc = "idle"
  /\ ~worker.isRunning
  /\ invocations < MaxInvocations
  /\ invocations' = invocations + 1
  /\ starts' = [starts EXCEPT ![s].pc = "enabled"]
  /\ UNCHANGED << now, user, faults, settings, reactions, processedPosts,
                  worker, intervals, feeds, workerRest >>

\* start() after the setting: it returns if automation is disabled; otherwise
\* it sets isRunning and calls processFeed, which runs up to its first await
startEnabled(s) ==
  /\ starts[s].pc = "enabled"
  /\ IF settings.automation_enabled # "true"
     THEN /\ starts' = [starts EXCEPT ![s] = IdleStart]
          /\ UNCHANGED << worker, feeds >>
     ELSE \E f \in Feeds :
            /\ FirstFree(f)
            /\ worker' = [worker EXCEPT !.isRunning = TRUE]
            /\ feeds' = [feeds EXCEPT ![f] = [IdleFeed EXCEPT !.pc = "user"]]
            /\ starts' = [starts EXCEPT ![s] = [pc |-> "feeding", feed |-> f]]
  /\ UNCHANGED << now, user, faults, settings, reactions, processedPosts,
                  intervals, invocations, workerRest >>

\* start() after its processFeed and the poll_interval setting: setInterval
startPolling(s) ==
  /\ starts[s].pc = "feeding"
  /\ feeds[starts[s].feed].pc = "done"
  /\ feeds' = [feeds EXCEPT ![starts[s].feed] = IdleFeed]
  /\ intervals' = Append(intervals, TRUE)
  /\ worker' = [worker EXCEPT !.pollInterval = Len(intervals) + 1]
  /\ starts' = [starts EXCEPT ![s] = IdleStart]
  /\ UNCHANGED << now, user, faults, settings, reactions, processedPosts,
                  invocations, workerRest >>

\* an installed timer fires: processFeed is called, whether or not an
\* earlier processFeed is still in progress
pollTick(f) ==
  /\ installed # {}
  /\ invocations < MaxInvocations
  /\ invocations' = invocations + 1
  /\ FirstFree(f)
  /\ feeds' = [feeds EXCEPT ![f] = [IdleFeed EXCEPT !.pc = "user"]]
  /\ UNCHANGED << now, user, faults, settings, reactions, processedPosts,
                  worker, intervals, starts, workerRest >>

\* processFeed after getAuthenticatedUser: with no user or an expired token
\* it awaits setSetting('automation_enabled', 'false'); otherwise it awaits
\* the count of today and the daily limit
feedUser(f) ==
  /\ feeds[f].pc = "user"
  /\ feeds' = [feeds EXCEPT ![f].pc =
                 IF user = NoRow \/ tokenExpired(user)
                 THEN "disable" ELSE "count"]
  /\ UNCHANGED << now, user, faults, settings, reactions, processedPosts,
                  worker, intervals, starts, invocations, workerRest >>

\* processFeed after setSetting: this.stop(), return
feedDisable(f) ==
  /\ feeds[f].pc = "disable"
  /\ settings' = [settings EXCEPT !.automation_enabled = "false"]
  /\ worker' = IF worker.isRunning THEN stopped(worker) ELSE worker
  /\ intervals' = cleared(worker)
  /\ feeds' = [feeds EXCEPT ![f].pc = "done"]
  /\ UNCHANGED << now, user, faults, reactions, processedPosts, starts,
                  invocations, workerRest >>

\* processFeed after getTodayReactionCount and the daily_limit setting: it
\* returns when the limit is reached, and awaits fetchFeed otherwise
feedCount(f) ==
  /\ feeds[f].pc = "count"
  /\ feeds' = [feeds EXCEPT ![f].dailyLimit = dailyLimitOf(settings),
                            ![f].pc =
                              IF getTodayReactionCount >= dailyLimitOf(settings)
                              THEN "done" ELSE "fetch"]
  /\ UNCHANGED << now, user, faults, settings, reactions, processedPosts,
                  worker, intervals, starts, invocations, workerRest >>

\* the position of processFeed at the next post it has to handle: a post
\* that is processed is skipped; a post that is not is saved and, as the
\* rules of the settings react to every post, reactToPost sends its request
nextFeedPost(fd, from) ==
  LET todo == { i \in from..Len(fd.posts) : fd.posts[i] \notin processedPosts }
  IN IF todo = {}
     THEN [fd EXCEPT !.pc = "done", !.index = Len(fd.posts) + 1]
     ELSE [fd EXCEPT !.pc = "react_inflight",
                     !.index = CHOOSE i \in todo : \A j \in todo : i <= j]

\* fetchFeed answers with the posts of the feed
feedFetched(f) ==
  /\ feeds[f].pc = "fetch"
  /\ \E n \in 0..MaxFeedPosts :
       feeds' = [feeds EXCEPT ![f] =
                   nextFeedPost([feeds[f] EXCEPT !.posts = [i \in 1..n |-> i]],
                                1)]
  /\ UNCHANGED << now, user, faults, settings, reactions, processedPosts,
                  worker, intervals, starts, invocations, workerRest >>

\* fetchFeed throws: the catch of processFeed logs
feedFetchFails(f) ==
  /\ feeds[f].pc = "fetch"
  /\ CanFault
  /\ faults' = faults + 1
  /\ feeds' = [feeds EXCEPT ![f].pc = "done"]
  /\ UNCHANGED << now, user, settings, reactions, processedPosts, worker,
                  intervals, starts, invocations, workerRest >>

\* LinkedIn accepts the reaction: saveReaction with success, then
\* processFeed awaits the count of today again
reactDone(f) ==
  /\ feeds[f].pc = "react_inflight"
  /\ reactions' = saveReaction(feeds[f].posts[feeds[f].index], TRUE)
  /\ feeds' = [feeds EXCEPT ![f].pc = "recount"]
  /\ UNCHANGED << now, user, faults, settings, processedPosts, worker,
                  intervals, starts, invocations, workerRest >>

\* LinkedIn refuses the reaction: saveReaction without success; a 429 is
\* thrown on to the catch of processFeed
reactFails(f, status) ==
  /\ feeds[f].pc = "react_inflight"
  /\ CanFault
  /\ faults' = faults + 1
  /\ reactions' = saveReaction(feeds[f].posts[feeds[f].index], FALSE)
  /\ feeds' = [feeds EXCEPT ![f].pc = IF status = 429 THEN "done" ELSE "recount"]
  /\ UNCHANGED << now, user, settings, processedPosts, worker, intervals,
                  starts, invocations, workerRest >>

\* processFeed after the second count: it leaves the loop when the limit is
\* reached, and marks the post processed and goes on otherwise
feedRecount(f) ==
  /\ feeds[f].pc = "recount"
  /\ IF getTodayReactionCount >= feeds[f].dailyLimit
     THEN /\ feeds' = [feeds EXCEPT ![f].pc = "done"]
          /\ UNCHANGED processedPosts
     ELSE /\ processedPosts' =
               processedPosts \cup {feeds[f].posts[feeds[f].index]}
          /\ feeds' = [feeds EXCEPT ![f] =
                         nextFeedPost([feeds[f] EXCEPT !.pc = "post"],
                                      feeds[f].index + 1)]
  /\ UNCHANGED << now, user, faults, settings, reactions, worker, intervals,
                  starts, invocations, workerRest >>

Feed(f) ==
  \/ pollTick(f)
  \/ feedUser(f)
  \/ feedDisable(f)
  \/ feedCount(f)
  \/ feedFetched(f)
  \/ feedFetchFails(f)
  \/ reactDone(f)
  \/ \E status \in {429, 500} : reactFails(f, status)
  \/ feedRecount(f)

\* midnight passes for the worker
WorkerNextDay ==
  /\ DateOf(now) < MaxDay
  /\ now' = (DateOf(now) + 1) * SecondsPerDay
  /\ UNCHANGED << user, faults, workerVars, workerRest >>

WorkerIdle ==
  /\ settings = [automation_enabled |-> "false", daily_limit |-> DefaultReactionLimit]
  /\ reactions = << >>
  /\ processedPosts = {}
  /\ worker = NewWorker
  /\ intervals = << >>
  /\ feeds = [f \in Feeds |-> IdleFeed]
  /\ starts = [s \in Starts |-> IdleStart]
  /\ invocations = 0

\* the components beside the sync engine and the scheduler at start
AppIdle == RateLimiterIdle /\ MigrationsIdle /\ WorkerIdle

\* =========================================================== initial states
\* the connections imported from the CSV export: 1 and 2 are one person
\* imported twice, who matches a keyword and connected 6 days before time 0;
\* 3 is an old connection that matches no keyword
ImportedConnections ==
  [c \in 1..3 |->
     IF c \in {1, 2}
     THEN [matchesKeyword |-> TRUE, connected_on |-> 0 - 6 * SecondsPerDay,
           urn |-> 1]
     ELSE [matchesKeyword |-> FALSE, connected_on |-> 0 - 100 * SecondsPerDay,
           urn |-> 2]]

Init ==
  /\ now = 0
  /\ options \in Configs
  /\ utcOffset \in UtcOffsets
  /\ user \in {NoRow, [access_token |-> TRUE]}
  /\ connections = ImportedConnections
  /\ summary = [c \in DOMAIN ImportedConnections |-> NoRow]
  /\ sessions = << >>
  /\ apiCalls = << >>
  /\ queue = << >>
  /\ trackedPosts = {}
  /\ events = << >>
  /\ insights = << >>
  /\ eng = [e \in Engines |-> SyncEngine(options)]
  /\ runs = 0
  /\ faults = 0
  /\ otherCalls = 0
  /\ SchedulerIdle
  /\ AppIdle

\* the daily scheduler or the manual trigger runs one sync at a time
Next ==
  \/ Tick
  \/ NextDay
  \/ OtherApiCall
  \/ FixDuplicates
  \/ Step(1)

Spec == Init /\ [][Next]_vars

\* ------------------------------------------------- the end-to-end scenario
\* A usable budget of 10 (60 - the default reserve of 50), the default batch
\* size, two tracked posts, and 15 connections whose priorities come out as
\* 90, 90, 50, 40, 30, 20, 20, 10, 10, 10, 0, 0, 0, 0, 0.
ScenarioOptions == [dailyApiLimit |-> 60]

ScenarioPriorities == << 90, 90, 50, 40, 30, 20, 20, 10, 10, 10, 0, 0, 0, 0, 0 >>

\* connections 1, 2 and 4 have engaged ten days ago
ScenarioEngaged == {1, 2, 4}

ScenarioConnections ==
  [c \in 1..Len(ScenarioPriorities) |->
     [matchesKeyword |-> c \in {1, 2, 3},
      connected_on |->
        IF c \in {1, 2, 4, 6, 7} THEN 0 - 10 * SecondsPerDay
        ELSE IF c = 5 THEN 0 - 3 * SecondsPerDay
        ELSE IF c \in {8, 9, 10} THEN 0 - 60 * SecondsPerDay
        ELSE 0 - 100 * SecondsPerDay,
      \* 15 is 14 imported a second time
      urn |-> IF c = 15 THEN 14 ELSE c]]

InitScenario ==
  /\ now = 0
  /\ options = ScenarioOptions
  /\ utcOffset = 0
  /\ user = [access_token |-> TRUE]
  /\ connections = ScenarioConnections
  /\ summary = [c \in DOMAIN ScenarioConnections |->
                  IF c \in ScenarioEngaged
                  THEN [ai_relevant |-> c \in {1, 2}, total_engagements |-> 1,
                        status |-> "quiet"]
                  ELSE NoRow]
  /\ sessions = << >>
  /\ apiCalls = << >>
  /\ queue = << >>
  /\ trackedPosts = {1, 2}
  /\ events = [i \in 1..3 |->
                 [connection_id |-> IF i = 3 THEN 4 ELSE i, post_id |-> 1,
                  actor |-> IF i = 3 THEN 4 ELSE i,
                  happened_at |-> 0 - 10 * SecondsPerDay]]
  /\ insights = << >>
  /\ eng = [e \in Engines |-> SyncEngine(options)]
  /\ runs = 0
  /\ faults = 0
  /\ otherCalls = 0
  /\ SchedulerIdle
  /\ AppIdle

SpecScenario == InitScenario /\ [][Next]_vars

\* ------------------------------------------------------------- properties
\* the session row an engine works on
sessionOf(e) == sessions[eng[e].sessionId]

\* initialize has not returned yet
InInitialize(e) ==
  eng[e].pc \in {"idle", "initialize", "init_session", "init_usage"}

\* C1: every external call (the recent-posts fetch, each per-post engagement
\* fetch) is issued in a state where canAfford(1) holds, and a counter that
\* was within usableLimit when initialize returned is within it in every
\* later state of the run.
C1_BudgetInvariant ==
  /\ [](\A e \in Engines :
          (~InInitialize(e) /\ eng[e].usedAtInit <= eng[e].usableLimit)
            => eng[e].apiCallsUsed <= eng[e].usableLimit)
  /\ [][\A e \in Engines :
          eng'[e].issued > eng[e].issued
            => (eng[e].apiCallsUsed + 1) <= eng[e].usableLimit]_vars

\* C1 witness: a run that issued calls has used its budget up exactly
C1_Witness ==
  \E e \in Engines :
    eng[e].issued > 0 /\ eng[e].apiCallsUsed = eng[e].usableLimit

\* an item nextBatch would hand out now is left in the queue
EligibleLeft == \E i \in Indices(queue) : Eligible(queue[i], now)

PendingLeft == \E i \in Indices(queue) : queue[i].status = "pending"

\* C2: the insight computation and the completion of the session are reached
\* only with no eligible item left in the queue, and a run that returns
\* normally with items still pending has left its session paused.
C2_CompletedOnlyWhenDrained ==
  \A e \in Engines :
    /\ eng[e].pc \in {"calculateInsights", "complete"} => ~EligibleLeft
    /\ (eng[e].pc = "done" /\ eng[e].result = "success" /\ PendingLeft)
         => sessionOf(e).status = "paused"

\* C4: when initialize has resumed a paused session, the in-memory counter
\* equals the api_calls_used that session had persisted.
C4_ResumeRestoresCounter ==
  \A e \in Engines :
    (eng[e].pc = "get_user" /\ eng[e].session # NoRow
       /\ eng[e].session.status = "paused")
      => eng[e].apiCallsUsed = eng[e].session.api_calls_used

\* C5: a run that threw to its caller after its session was obtained or
\* created has left that session paused with the error message recorded.
C5_FailedRunLeavesSessionPaused ==
  \A e \in Engines :
    (eng[e].pc = "done" /\ eng[e].result = "thrown"
       /\ eng[e].sessionId # NoTime)
      => /\ sessionOf(e).status = "paused"
         /\ sessionOf(e).error_message = eng[e].error

ScenarioRunEnded(e) ==
  /\ connections = ScenarioConnections
  /\ \A i \in Indices(queue) :
       queue[i].priority = ScenarioPriorities[queue[i].connection_id]
  /\ eng[e].pc = "done" /\ runs = 1 /\ faults = 0
  /\ trackedPosts = {1, 2}

\* C3: in the scenario the run syncs exactly five connections, the two of
\* priority 90 in creation order and then the next three by priority, and
\* ends paused with 9 or 10 calls used.
C3_ScenarioSyncsFiveThenPauses ==
  \A e \in Engines :
    ScenarioRunEnded(e)
      => /\ eng[e].synced = << 1, 2, 3, 4, 5 >>
         /\ eng[e].apiCallsUsed \in 9..10
         /\ sessionOf(e).status = "paused"

\* the rows of a batch, in the order explained by the claim rather than by
\* QueueBefore: higher priority first, then earlier creation, then lower id
InBatchOrder(a, b) ==
  \/ a.priority > b.priority
  \/ /\ a.priority = b.priority
     /\ \/ a.created_at < b.created_at
        \/ a.created_at = b.created_at /\ a.id < b.id

\* the step of processQueue that receives a non-empty batch
FetchesBatch(e) == At(e, "processQueue") /\ eng'[e].pc = "item"

C8_RebuildIdempotent ==
  /\ \A i, j \in Indices(queue) :
       queue[i].connection_id = queue[j].connection_id => i = j
  /\ rebuiltQueue(rebuiltQueue(queue)) = rebuiltQueue(queue)
  /\ \A e \in Engines :
       eng[e].pc = "processQueue" /\ eng[e].processed = 0 /\ eng[e].fetched = << >>
         => rebuiltQueue(queue) = queue

\* the second run has rebuilt a queue in which the first run left a failed item
C8_Witness ==
  \E e \in Engines :
    /\ runs = 2
    /\ eng[e].pc = "processQueue"
    /\ eng[e].fetched = << >>
    /\ Len(queue) = Cardinality(DOMAIN connections)
    /\ \E i \in Indices(queue) : queue[i].attempts > 0

\* the insight rows of a user, a date and a type
insightRows(user_sub, date, type) ==
  {i \in Indices(insights) : /\ insights[i].user_sub = user_sub
                             /\ insights[i].insight_date = date
                             /\ insights[i].insight_type = type}

\* C9: no user, date and type ever has two insight rows, and once
\* calculateInsights has returned there is exactly one row per type for
\* the user and the day, holding what that call computed.
C9_InsightsIdempotentPerDay ==
  /\ \A i, j \in Indices(insights) :
       ( /\ insights[i].user_sub = insights[j].user_sub
         /\ insights[i].insight_date = insights[j].insight_date
         /\ insights[i].insight_type = insights[j].insight_type ) => i = j
  /\ \A e \in Engines :
       eng[e].pc = "complete" =>
         \A k \in Indices(InsightTypes) :
           LET rows == insightRows(User, DateOf(now), InsightTypes[k])
           IN  /\ Cardinality(rows) = 1
               /\ \A i \in rows : insights[i].insight_data = insightData(k)

\* calculateInsights has returned a second time on a day: the session of the
\* day had been completed by the run before, which saved the three rows
C9_Witness ==
  \E e \in Engines :
    /\ runs = 2
    /\ eng[e].pc = "complete"
    /\ sessionOf(e).status = "completed"
    /\ sessionOf(e).session_date = DateOf(now)
    /\ Len(insights) = Len(InsightTypes)
    /\ eng[e].synced # << >>

\* the actors of a response that are the connection's stored identifier
matchingActors(connectionId, engagementData) ==
  {a \in engagementData : /\ connectionId \in DOMAIN connections
                          /\ connections[connectionId].urn = a}

UnixEpoch == 0 - 20000 * SecondsPerDay

\* connected_on values: today, around each tier boundary, long ago, in the
\* future, missing, and unparseable
PriorityDates ==
  { 0, 1 - 7 * SecondsPerDay, 0 - 7 * SecondsPerDay,
    1 - 30 * SecondsPerDay, 0 - 30 * SecondsPerDay,
    1 - 90 * SecondsPerDay, 0 - 90 * SecondsPerDay,
    0 - 100 * SecondsPerDay, SecondsPerDay, UnixEpoch, InvalidDate }

\* engagement summaries: none, or any combination of the three signals
PrioritySummaries ==
  { NoRow } \cup
  [ ai_relevant : BOOLEAN, total_engagements : {0, 1, 3},
    status : {"unknown", "active", "quiet", "cold"} ]

InitPriority ==
  /\ now = 0
  /\ options \in Configs
  /\ utcOffset = 0
  /\ user = [access_token |-> TRUE]
  /\ \E d \in PriorityDates :
       connections = << [matchesKeyword |-> FALSE, connected_on |-> d,
                         urn |-> 1] >>
  /\ \E s \in PrioritySummaries : summary = << s >>
  /\ sessions = << >>
  /\ apiCalls = << >>
  /\ queue = << >>
  /\ trackedPosts = {}
  /\ events = << >>
  /\ insights = << >>
  /\ eng = [e \in Engines |-> SyncEngine(options)]
  /\ runs = 0
  /\ faults = 0
  /\ otherCalls = 0
  /\ SchedulerIdle
  /\ AppIdle

\* lines 227-236: every connection is scored and queued with its score
scoreConnections ==
  /\ queue = << >>
  /\ queue' = rebuiltQueue(queue)
  /\ UNCHANGED << now, options, utcOffset, schedVars, appVars, user, connections, summary, sessions, apiCalls,
                  trackedPosts, events, insights, eng, runs, faults, otherCalls >>

NextPriority == scoreConnections

SpecPriority == InitPriority /\ [][NextPriority]_vars

\* the connection a queue item is for, and its summary
connectionOf(item) == connections[item.connection_id]
summaryOf(item) == summary[item.connection_id]

\* days since connected_on, at `now`, is below n (false of a date that does
\* not parse)
ConnectedWithin(item, n) ==
  /\ connectionOf(item).connected_on # InvalidDate
  /\ now - connectionOf(item).connected_on < n * SecondsPerDay

\* C11: every score is an integer from 0 to 100; a relevant, active
\* connection with engagement history made in the last week scores 100, and
\* one with no summary signal and no recent (or no readable) date scores 0.
C11_PriorityInRange ==
  \A i \in Indices(queue) :
    LET item == queue[i]
        s == summaryOf(item)
    IN  /\ item.priority \in 0..100
        /\ ( /\ s # NoRow /\ s.ai_relevant /\ s.total_engagements > 0
             /\ s.status = "active" /\ ConnectedWithin(item, 7) )
             => item.priority = 100
        /\ ( /\ s = NoRow \/ ( /\ ~s.ai_relevant /\ s.total_engagements = 0
                               /\ s.status # "active" )
             /\ ~ConnectedWithin(item, 90) )
             => item.priority = 0

\* a connection with every signal has been scored
C11_Witness ==
  \E i \in Indices(queue) :
    /\ summaryOf(queue[i]) # NoRow
    /\ summaryOf(queue[i]).ai_relevant
    /\ summaryOf(queue[i]).total_engagements > 0
    /\ summaryOf(queue[i]).status = "active"
    /\ ConnectedWithin(queue[i], 7)
    /\ queue[i].priority = 100

\* the reference score of a queue item's connection, from the four signals
ReferenceScore(item) ==
  LET s == summaryOf(item)
      relevant == IF s # NoRow /\ s.ai_relevant THEN 50 ELSE 0
      recency == IF ConnectedWithin(item, 7) THEN 30
                 ELSE IF ConnectedWithin(item, 30) THEN 20
                 ELSE IF ConnectedWithin(item, 90) THEN 10
                 ELSE 0
      history == IF s # NoRow /\ s.total_engagements > 0 THEN 20 ELSE 0
      active == IF s # NoRow /\ s.status = "active" THEN 15 ELSE 0
      total == relevant + recency + history + active
  IN  IF total > 100 THEN 100 ELSE total

\* C12: the score of every connection is the reference additive score
\* capped at 100, with exactly 7, 30 and 90 days in the lower tier, and
\* scoring changes no connection, summary or event.
C12_PriorityIsReferenceScore ==
  /\ [](\A i \in Indices(queue) : queue[i].priority = ReferenceScore(queue[i]))
  /\ [][queue' # queue =>
          UNCHANGED << connections, summary, events, sessions, apiCalls,
                       trackedPosts, insights >>]_vars

\* connections made exactly 7, 30 and 90 days ago have been scored
C12_Witness ==
  \E i \in Indices(queue) :
    /\ summaryOf(queue[i]) = NoRow
    /\ \/ /\ connectionOf(queue[i]).connected_on = 0 - 7 * SecondsPerDay
          /\ queue[i].priority = 20
       \/ /\ connectionOf(queue[i]).connected_on = 0 - 30 * SecondsPerDay
          /\ queue[i].priority = 10
       \/ /\ connectionOf(queue[i]).connected_on = 0 - 90 * SecondsPerDay
          /\ queue[i].priority = 0

\* --------------------------------------------------- a retry after a failure
\* The database one hour after a first run that refreshed one post, failed
\* to sync connection 1 (its item is failed, with one attempt) and synced
\* connection 2; the engine is a fresh one.
RetryQueue ==
  << [id |-> 1, connection_id |-> 1, priority |-> 80, status |-> "failed",
      attempts |-> 1, next_retry |-> RetryDelay,
      error_message |-> "SQLITE_ERROR", created_at |-> 0],
     [id |-> 2, connection_id |-> 2, priority |-> 80, status |-> "completed",
      attempts |-> 0, next_retry |-> NoTime, error_message |-> NULL,
      created_at |-> 0],
     [id |-> 3, connection_id |-> 3, priority |-> 0, status |-> "pending",
      attempts |-> 0, next_retry |-> NoTime, error_message |-> NULL,
      created_at |-> 0] >>

RetryDatabase ==
  /\ user = [access_token |-> TRUE]
  /\ connections = ImportedConnections
  /\ summary = << [ai_relevant |-> TRUE, total_engagements |-> 0,
                   status |-> "unknown"],
                  [ai_relevant |-> TRUE, total_engagements |-> 1,
                   status |-> "active"],
                  NoRow >>
  /\ sessions = << [id |-> 1, session_date |-> 0, status |-> "completed",
                    total_connections |-> 3, connections_synced |-> 1,
                    api_calls_used |-> 2, api_calls_limit |-> 6,
                    started_at |-> 0, paused_at |-> NoTime,
                    completed_at |-> 0, error_message |-> NULL] >>
  /\ apiCalls = << 0, 0 >>
  /\ queue = RetryQueue
  /\ trackedPosts = {1}
  /\ events = << [connection_id |-> 2, post_id |-> 1, actor |-> 1,
                  happened_at |-> 0] >>
  /\ insights = << [user_sub |-> User, insight_date |-> 0,
                    insight_type |-> "top_engagers", insight_data |-> {2}],
                   [user_sub |-> User, insight_date |-> 0,
                    insight_type |-> "rising_stars", insight_data |-> {2}],
                   [user_sub |-> User, insight_date |-> 0,
                    insight_type |-> "at_risk", insight_data |-> {}] >>

InitRetry ==
  /\ now = ClockStep
  /\ options \in Configs
  /\ utcOffset = 0
  /\ RetryDatabase
  /\ eng = [e \in Engines |-> SyncEngine(options)]
  /\ runs = 0
  /\ faults = 0
  /\ otherCalls = 0
  /\ SchedulerIdle
  /\ AppIdle

SpecRetry == InitRetry /\ [][Next]_vars

\* a step marks the i-th queue item failed
MarksFailed(i) ==
  /\ i \in Indices(queue) /\ i \in Indices(queue')
  /\ queue'[i] # queue[i]
  /\ queue'[i].status = "failed"

\* C13: a step that marks an item failed adds exactly one to its attempts
\* and sets its next_retry to the time of that step plus one hour, whatever
\* the item held before; no other step changes an item's attempts.
C13_FailureCountsAndBacksOff ==
  [][\A i \in Indices(queue) :
       /\ MarksFailed(i) => /\ queue'[i].attempts = queue[i].attempts + 1
                            /\ queue'[i].next_retry = now + 3600
       /\ (i \in Indices(queue') /\ queue'[i].attempts # queue[i].attempts)
            => MarksFailed(i)
    ]_vars

\* an item has failed a second time, later than the first
C13_Witness ==
  \E i \in Indices(queue) :
    /\ queue[i].status = "failed"
    /\ queue[i].attempts = 2
    /\ queue[i].next_retry = now + 3600
    /\ queue[i].next_retry > RetryQueue[i].next_retry

\* where run() is while one connection is being synced inside the try block
\* of lines 303-311
SyncingItem(e) ==
  eng[e].pc \in {"sync_post", "engagement_inflight", "engagement_track",
                 "engagement_persist", "engagement_process", "sync_summary",
                 "item_done"}

Refused(e) == eng[e].refusedAt # NoTime

\* C15: once an engagement request of a run has been refused (a rate-limit
\* response is such a refusal) the run issues no further external call and
\* ends with its session paused.
C15_RateLimitStopsRun ==
  \A e \in Engines :
    Refused(e) => /\ eng[e].issued = eng[e].refusedAt
                  /\ eng[e].pc = "done" => sessionOf(e).status = "paused"

\* an external request has been issued and consumeAPI has not yet counted it
AwaitingResponse(e) == eng[e].pc \in {"posts_inflight", "engagement_inflight"}

\* consumeAPI has just returned
JustRecorded(e) == eng[e].pc \in {"posts_save", "engagement_process"}

\* C16: from the end of initialize on, apiCallsUsed is its value after
\* initialize plus the number of external calls issued (less the one still
\* awaiting its response), and when consumeAPI returns the session's
\* api_calls_used is that value.
C16_EveryCallRecordedOnce ==
  \A e \in Engines :
    /\ ~InInitialize(e) =>
         eng[e].apiCallsUsed =
           eng[e].usedAtInit + eng[e].issued
             - (IF AwaitingResponse(e) THEN 1 ELSE 0)
    /\ JustRecorded(e) => sessionOf(e).api_calls_used = eng[e].apiCallsUsed

\* --------------------------------------------- interleaved initialize() calls
\* run() up to the end of its lines 63-68, called on either engine; the
\* calls interleave at their awaits
initializeCall(e) ==
  \/ run(e)
  \/ initialize(e)
  \/ initSession(e)
  \/ initUsage(e)
  \/ rejectBeforeTry(e)
  \/ getUser(e)

NextInitialize ==
  \/ NextDay
  \/ OtherApiCall
  \/ \E e \in Engines : initializeCall(e)

SpecInitialize == Init /\ [][NextInitialize]_vars

C18_ApiCallsUsedNeverDecreases ==
  [][\A i \in Indices(sessions) :
       i \in Indices(sessions')
         => sessions'[i].api_calls_used >= sessions[i].api_calls_used]_vars

\* C19: in every persisted session row, connections_synced is at most
\* total_connections.
C19_SyncedAtMostTotal ==
  \A i \in Indices(sessions) :
    sessions[i].connections_synced <= sessions[i].total_connections

\* the session row of the date says that a drain of that date completed every
\* item of the queue
AllCompletedToday(e) ==
  /\ eng[e].sessionId # NoTime
  /\ sessionOf(e).session_date = DateOf(now)
  /\ sessionOf(e).connections_synced = Len(queue)

\* C20: run() invoked again on a date whose run has finished does not sync
\* again a connection already completed on that date (and so spends no
\* budget on it), and does not reset the progress count of the date's
\* session.
C20_SecondRunSameDayIsNoOp ==
  /\ [](\A e \in Engines : SyncingItem(e) => ~AllCompletedToday(e))
  /\ [][\A i \in Indices(sessions) :
          i \in Indices(sessions') =>
            sessions'[i].connections_synced >= sessions[i].connections_synced]_vars

\* ------------------------------------------- a second run within the hour
\* The database right after a first run that refreshed the posts (none was
\* found), failed to sync connection 1 (its item is failed, to be retried in
\* one hour) and synced connections 2 and 3; the engine is a fresh one and
\* the clock has not moved.
RerunDatabase ==
  /\ user = [access_token |-> TRUE]
  /\ connections = ImportedConnections
  /\ summary = << [ai_relevant |-> TRUE, total_engagements |-> 0,
                   status |-> "unknown"],
                  [ai_relevant |-> TRUE, total_engagements |-> 0,
                   status |-> "unknown"],
                  [ai_relevant |-> FALSE, total_engagements |-> 0,
                   status |-> "unknown"] >>
  /\ sessions = << [id |-> 1, session_date |-> 0, status |-> "completed",
                    total_connections |-> 3, connections_synced |-> 2,
                    api_calls_used |-> 1, api_calls_limit |-> 6,
                    started_at |-> 0, paused_at |-> NoTime,
                    completed_at |-> 0, error_message |-> NULL] >>
  /\ apiCalls = << 0 >>
  /\ queue = << [id |-> 1, connection_id |-> 1, priority |-> 80,
                 status |-> "failed", attempts |-> 1,
                 next_retry |-> RetryDelay,
                 error_message |-> "SQLITE_ERROR", created_at |-> 0],
                [id |-> 2, connection_id |-> 2, priority |-> 80,
                 status |-> "completed", attempts |-> 0,
                 next_retry |-> NoTime, error_message |-> NULL,
                 created_at |-> 0],
                [id |-> 3, connection_id |-> 3, priority |-> 0,
                 status |-> "completed", attempts |-> 0,
                 next_retry |-> NoTime, error_message |-> NULL,
                 created_at |-> 0] >>
  /\ trackedPosts = {}
  /\ events = << >>
  /\ insights = << [user_sub |-> User, insight_date |-> 0,
                    insight_type |-> "top_engagers", insight_data |-> {}],
                   [user_sub |-> User, insight_date |-> 0,
                    insight_type |-> "rising_stars", insight_data |-> {}],
                   [user_sub |-> User, insight_date |-> 0,
                    insight_type |-> "at_risk", insight_data |-> {}] >>

InitRerun ==
  /\ now = 0
  /\ options \in Configs
  /\ utcOffset = 0
  /\ RerunDatabase
  /\ eng = [e \in Engines |-> SyncEngine(options)]
  /\ runs = 0
  /\ faults = 0
  /\ otherCalls = 0
  /\ SchedulerIdle
  /\ AppIdle

SpecRerun == InitRerun /\ [][Next]_vars

\* the item an engine is syncing failed less than the retry delay ago: its
\* back-off, set to the time of the failure plus one hour, has not elapsed
SyncingBeforeRetry(e) ==
  /\ SyncingItem(e)
  /\ eng[e].item.next_retry # NoTime
  /\ eng[e].item.next_retry > now

\* C21: across runs and queue rebuilds, a connection whose sync failed at
\* time t is not synced again before t + 3600 seconds.
C21_NoSyncBeforeRetryElapsed ==
  \A e \in Engines : ~SyncingBeforeRetry(e)

\* a session of an earlier date is paused and the queue still holds pending
\* items
PausedEarlierWithWork ==
  /\ PendingLeft
  /\ \E i \in Indices(sessions) :
       /\ sessions[i].status = "paused"
       /\ sessions[i].session_date < DateOf(now)

\* C22: a session paused on day D with work remaining is resumed by the next
\* run on a later day: that run reuses the paused session, it does not
\* create a new session row and abandon the paused one.
C22_PausedSessionResumedOnLaterDay ==
  [][PausedEarlierWithWork => Len(sessions') = Len(sessions)]_vars

\* run() is past initialize and getUser and doing sync work: refreshing the
\* posts, marking relevance, rebuilding or draining the queue, computing
\* insights
DoingSyncWork(e) ==
  /\ ~InInitialize(e)
  /\ eng[e].pc \notin {"get_user", "catch", "done"}

\* C23: a run that found today's session paused has set it to running
\* before any sync work: while a run does sync work its session is never
\* recorded as paused.
C23_WorkingSessionNeverPaused ==
  \A e \in Engines : DoingSyncWork(e) => sessionOf(e).status # "paused"

\* a step in which the engagement request an engine has in flight fails
EngagementCallFails(e) ==
  /\ eng[e].pc = "engagement_inflight"
  /\ eng'[e].refusedAt # eng[e].refusedAt

\* C24: a timeout or other failure of one engagement call is a failure of
\* the item being synced: control goes to the item's catch, which marks the
\* item failed with attempts incremented and next_retry set, so the item is
\* not marked completed; the run goes on.
C24_FailedCallFailsItem ==
  [][\A e \in Engines :
       EngagementCallFails(e) => eng'[e].pc = "item_failed"]_vars

\* where run() is inside syncRecentPosts
InPostRefresh(e) ==
  eng[e].pc \in {"syncRecentPosts", "posts_inflight", "posts_track",
                 "posts_persist", "posts_save"}

\* C25: the recent-posts request is issued only if canAfford(1) holds, and
\* nothing that happens inside the post refresh (a failed request, a
\* rejected budget recording or post save) leaves it as an exception: every
\* step of the refresh stays in it or hands over to relevance marking, with
\* no error raised and the session's status untouched.
C25_PostRefreshIsBestEffort ==
  [][\A e \in Engines :
       /\ (eng[e].pc = "syncRecentPosts" /\ eng'[e].pc = "posts_inflight")
            => canAfford(e, 1)
       /\ (InPostRefresh(e) /\ eng'[e] # eng[e])
            => /\ \/ eng'[e].pc = "markAIRelevantConnections"
                  \/ eng'[e].pc \in {"posts_inflight", "posts_track",
                                     "posts_persist", "posts_save"}
               /\ eng'[e].raised = NULL
               /\ eng'[e].error = NULL
               /\ sessionOf(e).status = "running"
                    => sessions'[eng[e].sessionId].status = "running"]_vars

\* a first run whose post refresh met the one failure is draining the
\* queue, its session still running
C25_Witness ==
  /\ runs = 1 /\ faults = 1
  /\ eng[1].pc = "item"
  /\ eng[1].raised = NULL
  /\ sessionOf(1).status = "running"

\* the drain is between two items: no call is in flight and no database
\* write of an item is under way
BetweenItems(e) == eng[e].pc \in {"processQueue", "item"}

\* C26: a crash at any point of the drain loses no progress: between two
\* items the persisted session holds the number of items the run has
\* completed so far and, once the run has consumed a call, the run's
\* counter of calls.
C26_ProgressPersistedAtOnce ==
  \A e \in Engines :
    BetweenItems(e) =>
      /\ sessionOf(e).connections_synced = eng[e].processed
      /\ eng[e].apiCallsUsed > eng[e].usedAtInit
           => sessionOf(e).api_calls_used = eng[e].apiCallsUsed

\* ------------------------------------------- a trigger during a running sync
\* run() is invoked on a second engine (a manual trigger, another process)
\* while the first one awaits LinkedIn's answer to an engagement request;
\* the first engine goes on when the second has returned
secondTrigger ==
  /\ eng[1].pc = "engagement_inflight"
  /\ Step(2)

firstEngine ==
  /\ eng[2].pc \in {"idle", "done"}
  /\ Step(1)

NextConcurrent == firstEngine \/ secondTrigger

SpecConcurrent == Init /\ [][NextConcurrent]_vars

\* C27: a run() that finds today's session in status running declines to
\* start: it does no sync work (no external call, no queue write) next to
\* the run that owns the session, so two runs never work concurrently.
C27_NoCompetingRun ==
  \A e1, e2 \in Engines :
    e1 # e2 => ~(DoingSyncWork(e1) /\ DoingSyncWork(e2))

\* ------------------------------------------------ the constructor's options
\* the values tried for one option
OptionValues == {0, 1, 2, 7}

\* the options objects tried: any subset of the three options given, each
\* with any of the values
OptionChoices ==
  UNION { [given -> OptionValues] :
            given \in SUBSET {"dailyApiLimit", "reservePool", "batchSize"} }

InitOptions ==
  /\ now = 0
  /\ options \in OptionChoices
  /\ utcOffset = 0
  /\ user \in {NoRow, [access_token |-> TRUE]}
  /\ connections = ImportedConnections
  /\ summary = [c \in DOMAIN connections |-> NoRow]
  /\ sessions = << >>
  /\ apiCalls = << >>
  /\ queue = << >>
  /\ trackedPosts = {}
  /\ events = << >>
  /\ insights = << >>
  /\ eng = [e \in Engines |-> SyncEngine(options)]
  /\ runs = 0
  /\ faults = 0
  /\ otherCalls = 0
  /\ SchedulerIdle
  /\ AppIdle

\* engines are constructed with the options and initialized
SpecOptions == InitOptions /\ [][NextInitialize]_vars

\* both limits are given and the reserve is within the limit
ConfiguredPair ==
  /\ {"dailyApiLimit", "reservePool"} \subseteq DOMAIN options
  /\ 0 <= options.reservePool
  /\ options.reservePool <= options.dailyApiLimit

\* C28: usableLimit = dailyApiLimit - reservePool for every configured pair
\* with 0 <= reservePool <= dailyApiLimit, a reserve of 0 included; with no
\* options it is 500 - 50 = 450; canAfford(n) holds exactly when
\* apiCallsUsed + n <= usableLimit.
C28_UsableLimitIsLimitMinusReserve ==
  \A e \in Engines :
    /\ ConfiguredPair
         => eng[e].usableLimit = options.dailyApiLimit - options.reservePool
    /\ DOMAIN options = {}
         => eng[e].usableLimit = DefaultDailyApiLimit - DefaultReservePool
    /\ \A n \in 0..5 :
         canAfford(e, n) <=> eng[e].apiCallsUsed + n <= eng[e].usableLimit

\* ------------------------------------------------- the scheduler's behaviours
InitScheduler ==
  /\ now = 0
  /\ options \in Configs
  /\ utcOffset = 0
  /\ user \in {NoRow, [access_token |-> TRUE]}
  /\ connections = ImportedConnections
  /\ summary = [c \in DOMAIN connections |-> NoRow]
  /\ sessions = << >>
  /\ apiCalls = << >>
  /\ queue = << >>
  /\ trackedPosts = {}
  /\ events = << >>
  /\ insights = << >>
  /\ eng = [e \in Engines |-> SyncEngine(options)]
  /\ runs = 0
  /\ faults = 0
  /\ otherCalls = 0
  /\ SchedulerIdle
  /\ AppIdle

\* the user schedules posts, the clock moves, the cron callback runs, one
\* invocation at a time
NextScheduler ==
  \/ ClockTick
  \/ ClockNextDay
  \/ scheduleRequest
  \/ scheduleCreate
  \/ Job(1)

SpecScheduler == InitScheduler /\ [][NextScheduler]_vars

\* the scheduled posts published on the local calendar day that starts at
\* time t
PublishedOnDay(t) ==
  {i \in Indices(scheduledPosts) :
     /\ scheduledPosts[i].status = "published"
     /\ todayStart(scheduledPosts[i].published_at) = t}

\* C29: whatever the schedule requests and scheduler ticks, no more than 10
\* scheduled posts of the user are published within one calendar day.
C29_AtMostTenPublishedPerDay ==
  \A i \in Indices(scheduledPosts) :
    scheduledPosts[i].status = "published" =>
      Cardinality(PublishedOnDay(todayStart(scheduledPosts[i].published_at)))
        <= DailyPostLimit

\* ------------------------------------------------ overlapping cron callbacks
\* Two posts scheduled at time 0 are due, the scheduler has not run since;
\* from here the cron callback runs, and a second invocation may start while
\* the first awaits LinkedIn.
DuePosts ==
  /\ scheduledPosts = << NewScheduledPost(1, ClockStep),
                         NewScheduledPost(2, ClockStep) >>
  /\ sent = << 0, 0 >>
  /\ jobs = [j \in Jobs |-> IdleJob]
  /\ request = IdleRequest

InitOverlap ==
  /\ now = ClockStep
  /\ options \in Configs
  /\ utcOffset = 0
  /\ user \in {NoRow, [access_token |-> TRUE]}
  /\ connections = ImportedConnections
  /\ summary = [c \in DOMAIN connections |-> NoRow]
  /\ sessions = << >>
  /\ apiCalls = << >>
  /\ queue = << >>
  /\ trackedPosts = {}
  /\ events = << >>
  /\ insights = << >>
  /\ eng = [e \in Engines |-> SyncEngine(options)]
  /\ runs = 0
  /\ faults = 0
  /\ otherCalls = 0
  /\ DuePosts
  /\ AppIdle

NextOverlap == \E j \in Jobs : Job(j)

SpecOverlap == InitOverlap /\ [][NextOverlap]_vars

\* C30: a scheduled post goes from pending to published or to failed and
\* then keeps that status, and it is sent to LinkedIn at most once, also
\* when a cron tick fires during an earlier tick's processScheduledPosts or
\* when a status update fails.
C30_PublishedOrFailedOnceAndForAll ==
  /\ [](\A i \in Indices(sent) : sent[i] <= 1)
  /\ [][\A i \in Indices(scheduledPosts) :
          scheduledPosts[i].status # "pending"
            => scheduledPosts'[i].status = scheduledPosts[i].status]_vars

\* ------------------------------------------------------ the rate limiter spec
InitRateLimit ==
  /\ now = 0
  /\ options \in Configs
  /\ utcOffset = 0
  /\ user = [access_token |-> TRUE]
  /\ connections = ImportedConnections
  /\ summary = [c \in DOMAIN ImportedConnections |-> NoRow]
  /\ sessions = << >>
  /\ apiCalls = << >>
  /\ queue = << >>
  /\ trackedPosts = {}
  /\ events = << >>
  /\ insights = << >>
  /\ eng = [e \in Engines |-> SyncEngine(options)]
  /\ runs = 0
  /\ faults = 0
  /\ otherCalls = 0
  /\ SchedulerIdle
  /\ AppIdle

\* requests of both keys reach the limited routes while time passes
NextRateLimit ==
  \/ \E route \in Routes, key \in Keys : rateLimit(route, key)
  \/ rateLimiterCleanup
  \/ Elapse
  \/ ElapseDay

SpecRateLimit == InitRateLimit /\ [][NextRateLimit]_vars

\* the requests of the key that the route's limiter passed on to the handler
\* inside the window of length w that starts at time t
PassedOnIn(log, route, key, t, w) ==
  { i \in Indices(log) :
      /\ log[i].route = route
      /\ log[i].key = key
      /\ log[i].next
      /\ t <= log[i].time
      /\ log[i].time < t + w }

\* every window holds at most maxRequests requests that were passed on; it
\* is enough to look at the windows that start with a request
AtMostMaxPerWindow ==
  \A i \in Indices(answered) :
    Cardinality(PassedOnIn(answered, answered[i].route, answered[i].key,
                           answered[i].time, windowMs(answered[i].route)))
      <= maxRequests(answered[i].route)

\* the occurrences of the time in the list of the key
Recorded(limiters, key, t) ==
  IF key \in DOMAIN limiters
  THEN Cardinality({ i \in Indices(limiters[key]) : limiters[key][i] = t })
  ELSE 0

\* a request that arrives when the window that ends with it already holds
\* maxRequests passed requests is answered 429, and a request answered 429 is
\* recorded in the list of its key
FurtherIsRejectedAndCounts ==
  answered' # answered =>
    LET req == answered'[Len(answered')]
        w == windowMs(req.route)
    IN /\ Cardinality(PassedOnIn(answered, req.route, req.key,
                                 req.time - w + 1, w))
            >= maxRequests(req.route)
          => ~req.next
       /\ ~req.next =>
            Recorded(rateLimiters', req.key, req.time)
              = Recorded(rateLimiters, req.key, req.time) + 1

\* C31: for every key and every window of windowMs, at most maxRequests
\* requests of the key are passed on to the route handler; every further
\* request in the window is answered 429, and the rejected requests count
\* toward the window too
C31_AtMostMaxRequestsPerWindow ==
  /\ []AtMostMaxPerWindow
  /\ [][FurtherIsRejectedAndCounts]_vars

\* a fourth like inside the minute was answered 429 after three were passed
\* on, and a later like was passed on again once the window had moved
C31_Witness ==
  \E i, j \in Indices(answered) :
    /\ i < j
    /\ answered[i].route = "like"
    /\ answered[j].route = "like"
    /\ answered[i].key = answered[j].key
    /\ ~answered[i].next
    /\ answered[j].next
    /\ Cardinality(PassedOnIn(answered, "like", answered[i].key,
                              answered[i].time - WindowMs + 1, WindowMs)) = 3

\* ------------------------------------------------ the migration runner spec
\* the runner is invoked again and again on the database; a later migration
\* file appears in the directory at some point
NextMigrate ==
  \/ addMigrationFile
  \/ runMigrations
  \/ selectApplied
  \/ selectFails
  \/ execDone
  \/ execFails
  \/ recordDone
  \/ recordFails

SpecMigrate == Init /\ [][NextMigrate]_vars

\* the position of the version's file in sorted order
SortedPosition(version) ==
  CHOOSE i \in Indices(MigrationFiles) : versionOf(MigrationFiles[i]) = version

\* one invocation executes the migrations in sorted filename order, and
\* executes nothing after a migration has failed
ExecutedInOrder ==
  \A i, j \in Indices(executed) :
    i < j /\ executed[i].run = executed[j].run =>
      /\ SortedPosition(executed[i].version) < SortedPosition(executed[j].version)
      /\ executed[i].ok

\* over all invocations the SQL of a migration has run at most once
ExecutedAtMostOnce ==
  \A i, j \in Indices(executed) :
    i < j /\ executed[i].ok /\ executed[j].ok =>
      executed[i].version # executed[j].version

\* the step in which a migration fails ends the invocation and records
\* nothing
FailureStops ==
  runner.pc \in {"exec", "insert"} /\ runner'.exitCode = 1 =>
    /\ runner'.pc = "exited"
    /\ schemaMigrations' = schemaMigrations

\* C32: the runner applies the pending migrations in sorted filename order,
\* executes the SQL of each migration at most once over any sequence of
\* invocations, and stops at the first failing migration without applying a
\* later one and without recording the failed version
C32_MigrationsOnceInOrder ==
  /\ [](ExecutedInOrder /\ ExecutedAtMostOnce)
  /\ [][FailureStops]_vars

\* ------------------------------------------------------- the worker spec
\* automation is enabled with a small daily limit; the latest user has a
\* token that does not expire, one that expires at noon of day 0, or there is
\* no user
InitWorker ==
  /\ now = 0
  /\ options \in Configs
  /\ utcOffset = 0
  /\ user \in {NoRow, [access_token |-> TRUE],
               [access_token |-> TRUE, token_expires_at |-> SecondsPerDay \div 2]}
  /\ connections = ImportedConnections
  /\ summary = [c \in DOMAIN ImportedConnections |-> NoRow]
  /\ sessions = << >>
  /\ apiCalls = << >>
  /\ queue = << >>
  /\ trackedPosts = {}
  /\ events = << >>
  /\ insights = << >>
  /\ eng = [e \in Engines |-> SyncEngine(options)]
  /\ runs = 0
  /\ faults = 0
  /\ otherCalls = 0
  /\ SchedulerIdle
  /\ RateLimiterIdle
  /\ MigrationsIdle
  /\ \E limit \in DailyLimits :
       settings = [automation_enabled |-> "true", daily_limit |-> limit]
  /\ reactions = << >>
  /\ processedPosts = {}
  /\ worker = NewWorker
  /\ intervals = << >>
  /\ feeds = [f \in Feeds |-> IdleFeed]
  /\ starts = [s \in Starts |-> IdleStart]
  /\ invocations = 0

\* start() and stop() are called at any time, the timers fire at any time
NextWorker ==
  \/ stop
  \/ \E s \in Starts : start(s) \/ startEnabled(s) \/ startPolling(s)
  \/ \E f \in Feeds : Feed(f)
  \/ WorkerNextDay

SpecWorker == InitWorker /\ [][NextWorker]_vars

\* the successful reactions of the day
SuccessfulOn(day) ==
  { i \in Indices(reactions) :
      reactions[i].success /\ DateOf(reactions[i].timestamp) = day }

\* C33: the successful reactions of one day never exceed the configured
\* daily_limit, whatever the sequence of processFeed invocations, a poll tick
\* during a processFeed in progress included
C33_ReactionsWithinDailyLimit ==
  \A day \in 0..MaxDay :
    Cardinality(SuccessfulOn(day)) <= settings.daily_limit

\* C34: a poll timer is installed only while isRunning is true, at most one
\* timer exists, and stop() leaves no timer installed
C34_TimerOnlyWhileRunning ==
  /\ [](/\ installed # {} => worker.isRunning
        /\ Cardinality(installed) <= 1)
  /\ [][worker.isRunning /\ ~worker'.isRunning => installed' = {}]_vars

\* a step of a run on a session that an earlier run left paused
ResumedProgress(i) ==
  /\ sessions'[i].connections_synced >= sessions[i].connections_synced
  /\ \A e \in Engines :
       At(e, "drain_end") /\ eng[e].sessionId = i /\ sessions'[i] # sessions[i]
         => sessions'[i].connections_synced
              = sessions[i].connections_synced + eng[e].processed

\* C35: connections_synced is cumulative: across a pause followed by a
\* resumed run on the same session it never decreases, and the drain of the
\* resumed run adds the connections it synced to the count of the runs
\* before it
C35_SyncedCountIsCumulative ==
  [][\A i \in Indices(sessions) :
       sessions[i].status = "paused" /\ i \in Indices(sessions')
         => ResumedProgress(i)]_vars

\* the step marks the item of the engine completed
MarksCompleted(e) ==
  /\ At(e, "item_done")
  /\ queue[eng[e].item.id].status # "completed"
  /\ queue'[eng[e].item.id].status = "completed"

\* C36: a queue item is marked completed only after the engagement of every
\* post of the sampled window was fetched for its connection: an item whose
\* per-post loop was cut short by canAfford(1), with sampled posts left, is
\* not marked completed
C36_CompletedOnlyAfterAllPosts ==
  [][\A e \in Engines : MarksCompleted(e) => eng[e].posts = << >>]_vars

\* the step ends the drain loop of processQueue
StopsDraining(e) ==
  /\ eng[e].pc \in {"processQueue", "item"}
  /\ eng'[e].pc = "drain_end"

\* C37: the drain never stops early: processQueue goes on as long as an
\* eligible queue item remains and canAfford(2) holds; it does not stop at a
\* batch boundary, or refuse to start, while the budget covers the estimated
\* cost of one connection
C37_DrainNeverStopsEarly ==
  [][\A e \in Engines :
       StopsDraining(e) =>
         getNextSyncBatch(1) = << >> \/ ~canAfford(e, 2)]_vars

\* -------------------------------------------------------------- termination
\* runs of one engine, one after the other; the event loop runs every
\* continuation of a run that is ready
NextLive == Step(1)

\* the process runs in UTC
InitLive == Init /\ utcOffset = 0

SpecLive == InitLive /\ [][NextLive]_vars /\ WF_vars(Step(1))

\* run() has returned or thrown after the completed or the paused update
EndedAfterUpdate(e) ==
  /\ eng[e].pc = "done"
  /\ eng[e].sessionId # NoTime
  /\ sessionOf(e).status \in {"completed", "paused"}

BothStarted == \A e \in Engines : eng[e].pc # "idle"

\* the external calls the two runs have issued today
IssuedToday == eng[1].issued + eng[2].issued

\* C39: budget accounting stays exact in one process: when two run()
\* invocations interleave at their awaits, the external calls issued that
\* day never exceed usableLimit, and once both runs have ended the persisted
\* api_calls_used is not below the number of calls issued
C39_AccountingExactAcrossRuns ==
  BothStarted =>
    /\ IssuedToday <= eng[1].usableLimit
    /\ (\A e \in Engines : eng[e].pc = "done" /\ eng[e].sessionId # NoTime)
         => sessionOf(1).api_calls_used >= IssuedToday

====
